---- MODULE Spec2Model ----
(***************************************************************************)
(* A model of DArray<Probe, TestAllocator> (src/dynamic_array.hpp) run on  *)
(* a small heap.  Two array objects "x" and "y" live on the stack; every   *)
(* public member function is one action.  Blocks handed out by the         *)
(* allocator are sequences of slots; a slot is Raw (uninitialised) or the  *)
(* id of the Probe that lives in it.  Two UniquePointer objects "p" and    *)
(* "q" (src/unnamed/part_002) own objects of a second small heap.          *)
(***************************************************************************)
EXTENDS Integers, Sequences, FiniteSets, TLC

VARIABLES
    arr,          \* arr[a] = [alive, data, size, capacity] of array object a
    heap,         \* heap[b] = [live, slots] for every block address b
    word,         \* width in bits of size_t in this build
    blocksOut,    \* TestAllocator::allocationCount - deallocationCount
    faults,       \* undefined behaviour met so far (write to a live slot, ...)
    last,         \* what the last member function call did
    uptr,         \* uptr[p] = [alive, pointer, deleter] of UniquePointer p
    objs,         \* objs[k]: the object at address k is "free" or "live"
    ulast         \* what the last UniquePointer call did

vars == <<arr, heap, word, blocksOut, faults, last, uptr, objs, ulast>>

\* the variables of the UniquePointer objects (src/unnamed/part_002)
uvars == <<uptr, objs, ulast>>

----------------------------------------------------------------------------
(* Bounds of the model *)

MaxVal == 2        \* Probe ids used as inputs are 1..MaxVal
MaxN == 2          \* counts and range lengths of an insert or an assign
MaxInit == 3       \* counts and range lengths of a constructor
MaxPair == 3       \* total capacity of the two arrays of the two-array program
MaxPairN == 1      \* counts and range lengths of its inserts and assigns
NBlocks == 3       \* distinct block addresses the allocator hands out
WordBits == 16     \* size_t width of the wide build
MaxOne == 4        \* capacity of the array of the one-array program
MaxPush == 6       \* appends made by the append-only specification
MaxMore == 4       \* capacity of the array in the further-uses specification
MaxThrowing == 4   \* capacity of the array of elements whose moves may throw
MaxOwn == 4        \* capacity of the array that receives its own elements
MaxOwnN == 2       \* number of own elements inserted at once
MaxErase == 4     \* capacity of the array that is erased from
NarrowBits == 5    \* width of size_t in the build with a narrow word
NObjs == 3         \* addresses of the objects UniquePointers own
MaxDeleter == 1    \* deleter states are 0..MaxDeleter

(* Program constants *)

ElemSize == 4      \* sizeof(Probe): one int
Raw == -2          \* a slot holding no object
Moved == -1        \* Probe::id after being moved from
DefaultId == 0     \* Probe::id after default construction
Null == 0          \* nullptr
Ext == -1          \* "block" of the caller's own objects (call arguments)

Arrs == {"x", "y"}
Blocks == 1..NBlocks
Values == 1..MaxVal

Pow2(n) == 2 ^ n
SizeMax == Pow2(word) - 1
Wrap(n) == n % Pow2(word)

Max(p, q) == IF p >= q THEN p ELSE q
Min(p, q) == IF p <= q THEN p ELSE q

Ptr(b, i) == [b |-> b, i |-> i]
At(p, k) == [p EXCEPT !.i = @ + k]

----------------------------------------------------------------------------
(* The machine a call runs on: the arrays, the heap, the caller's argument *)
(* objects, the exception in flight and the events of the call so far.     *)

\* What goes wrong in a call: nothing, the allocation (TestAllocator throws),
\* or the f-th construction that may throw (Probe throws).
NoFailure == 0
AllocFails == -1

Begin(extObjs, f) ==
    [arr |-> arr, heap |-> heap, ext |-> extObjs, tx |-> Null,
     exc |-> "none", cons |-> 0, des |-> <<>>, allocs |-> 0, deallocs |-> 0,
     faults |-> {}, allocFail |-> (f = AllocFails),
     throwAt |-> IF f > 0 THEN f ELSE 0, moves |-> FALSE]

\* The same call for an element type whose move constructor may throw too:
\* the f-th construction of the call throws, whichever kind it is.
BeginThrowingMove(extObjs, f) == [Begin(extObjs, f) EXCEPT !.moves = TRUE]

Running(m) == m.exc = "none"
Throw(m, e) == IF Running(m) THEN [m EXCEPT !.exc = e] ELSE m
Fault(m, f) == [m EXCEPT !.faults = @ \cup {f}]

\* Run a scope guard's rollback while exception e is in flight.
Resume(m) == [m EXCEPT !.exc = "none"]
Rethrow(m, e) == IF m.exc = "terminate" THEN m ELSE [m EXCEPT !.exc = e]

\* Op applied to the value of x, x being evaluated once.
Once(Op(_), x) == CHOOSE r \in {Op(v) : v \in {x}} : TRUE

\* An exception that leaves a noexcept function calls std::terminate.
Noexcept(m) == IF Running(m) THEN m ELSE [m EXCEPT !.exc = "terminate"]
Survives(m) == m.exc # "terminate"

ValidSlot(m, p) ==
    /\ p.b \in Blocks
    /\ m.heap[p.b].live
    /\ p.i >= 0 /\ p.i < Len(m.heap[p.b].slots)

Deref(m, p) ==
    IF p.b = Ext
    THEN IF p.i >= 0 /\ p.i < Len(m.ext) THEN m.ext[p.i + 1] ELSE Raw
    ELSE IF ValidSlot(m, p) THEN m.heap[p.b].slots[p.i + 1] ELSE Raw

Store(m, p, v) ==
    IF p.b = Ext
    THEN IF p.i >= 0 /\ p.i < Len(m.ext)
         THEN [m EXCEPT !.ext[p.i + 1] = v] ELSE Fault(m, "write_outside_block")
    ELSE IF ValidSlot(m, p)
         THEN [m EXCEPT !.heap[p.b].slots[p.i + 1] = v]
         ELSE Fault(m, "write_outside_block")

begin(m, a) == Ptr(m.arr[a].data, 0)
end(m, a) == Ptr(m.arr[a].data, m.arr[a].size)

\* mutant: the limit is counted in bytes, not in elements
maxSize_bytes == SizeMax

maxSize == SizeMax \div ElemSize

\* std::__is_pointer_in_range(first, last, p)
isPointerInRange(lo, hi, p) ==
    p.b = lo.b /\ lo.i <= p.i /\ p.i < hi.i

----------------------------------------------------------------------------
(* Allocator *)

FreeBlock(m) == CHOOSE b \in Blocks :
    /\ ~m.heap[b].live
    /\ \A c \in Blocks : ~m.heap[c].live => b <= c

RawSlots(n) == [k \in 1..n |-> Raw]

\* TestAllocator::allocate behind DArray::allocateData; the block address
\* is left in tx.
allocateData(m, n) ==
    IF ~Running(m) THEN m
    ELSE IF n > maxSize THEN Throw(m, "bad_alloc")
    ELSE IF m.allocFail THEN Throw([m EXCEPT !.allocFail = FALSE], "bad_alloc")
    ELSE LET b == FreeBlock(m) IN
         [m EXCEPT !.heap[b] = [live |-> TRUE, slots |-> RawSlots(n)],
                   !.allocs = @ + 1, !.tx = b]

\* TestAllocator::deallocate behind DArray::deallocateData; objects still
\* alive in the block are never destroyed.
deallocateData(m, b) ==
    IF b \in Blocks /\ m.heap[b].live
    THEN LET m1 == IF \E k \in 1..Len(m.heap[b].slots) : m.heap[b].slots[k] # Raw
                   THEN Fault(m, "abandoned_object") ELSE m
         IN [m1 EXCEPT !.heap[b] = [live |-> FALSE, slots |-> <<>>],
                       !.deallocs = @ + 1]
    ELSE Fault([m EXCEPT !.deallocs = @ + 1],
               IF b = Null THEN "deallocate_null" ELSE "double_deallocate")

\* mutant: the block is adopted but the capacity is not recorded
allocate_noCapacity(m, a, n) ==
    LET m1 == allocateData(m, n) IN
    IF ~Running(m1) THEN m1
    ELSE [m1 EXCEPT !.arr[a].data = m1.tx, !.arr[a].size = 0, !.tx = Null]

\* DArray::allocate
allocate(m, a, n) ==
    LET m1 == allocateData(m, n) IN
    IF ~Running(m1) THEN m1
    ELSE [m1 EXCEPT !.arr[a].data = m1.tx, !.arr[a].size = 0,
                    !.arr[a].capacity = n, !.tx = Null]

\* mutant: the block is released but the capacity is kept
deallocate_keepCapacity(m, a) ==
    LET m1 == deallocateData(m, m.arr[a].data) IN
    [m1 EXCEPT !.arr[a].data = Null, !.arr[a].size = 0]

\* DArray::deallocate
deallocate(m, a) ==
    LET m1 == deallocateData(m, m.arr[a].data) IN
    [m1 EXCEPT !.arr[a].data = Null, !.arr[a].size = 0, !.arr[a].capacity = 0]

----------------------------------------------------------------------------
(* Element lifetime *)

\* placement new of a Probe with id v at dst
Place(m, dst, v) ==
    LET m1 == IF ~ValidSlot(m, dst) THEN Fault(m, "write_outside_block")
              ELSE IF Deref(m, dst) # Raw THEN Fault(m, "construct_on_live")
              ELSE m
        m2 == IF v = Raw THEN Fault(m1, "read_dead_object") ELSE m1
    IN [Store(m2, dst, v) EXCEPT !.cons = @ + 1]

\* A constructor that may throw: the throwAt-th one of the call does.
Fallible(m) ==
    IF m.throwAt = 1 THEN [m EXCEPT !.exc = "runtime_error", !.throwAt = 0]
    ELSE [m EXCEPT !.throwAt = IF @ > 1 THEN @ - 1 ELSE 0]

\* new (dst) Probe()
DefaultConstruct(m, dst) ==
    IF ~Running(m) THEN m
    ELSE LET m1 == Fallible(m) IN
         IF Running(m1) THEN Place(m1, dst, DefaultId) ELSE m1

\* new (dst) Probe(id, dummy)
ArgsConstruct(m, dst, id) ==
    IF ~Running(m) THEN m
    ELSE LET m1 == Fallible(m) IN
         IF Running(m1) THEN Place(m1, dst, id) ELSE m1

\* new (dst) Probe(*src)
CopyConstruct(m, dst, src) ==
    IF ~Running(m) THEN m
    ELSE LET m1 == Fallible(m) IN
         IF Running(m1) THEN Place(m1, dst, Deref(m1, src)) ELSE m1

\* new (dst) ElementT(std::move(*src)): leaves id -1 in the source. Probe's
\* is noexcept; a throwing one throws before it has touched either object.
MoveConstruct(m, dst, src) ==
    IF ~Running(m) THEN m
    ELSE LET m1 == IF m.moves THEN Fallible(m) ELSE m IN
         IF Running(m1) THEN Store(Place(m1, dst, Deref(m1, src)), src, Moved)
         ELSE m1

\* p->~Probe()
Destruct(m, p) ==
    LET m1 == IF ValidSlot(m, p) /\ Deref(m, p) # Raw THEN m
              ELSE Fault(m, "destroy_dead_object")
        m2 == IF ValidSlot(m1, p) THEN Store(m1, p, Raw) ELSE m1
    IN [m2 EXCEPT !.des = Append(@, p)]

\* mutant: destroys the range first to last
RECURSIVE DestructRangeInReverse_forward(_, _, _)
DestructRangeInReverse_forward(m, first, n) ==
    IF n <= 0 THEN m
    ELSE DestructRangeInReverse_forward(Destruct(m, first), At(first, 1), n - 1)

\* DestructRangeInReverse(first, last)() with last = first + n
RECURSIVE DestructRangeInReverse(_, _, _)
DestructRangeInReverse(m, first, n) ==
    IF n <= 0 THEN m
    ELSE DestructRangeInReverse(
             Once(LAMBDA v : Destruct(v, At(first, n - 1)), m), first, n - 1)

\* exception guard of the construct loops: destroy what was built
UnwindRange(m, first, n) ==
    Rethrow(DestructRangeInReverse(Resume(m), first, n), m.exc)

RECURSIVE constructDefaultElements(_, _, _, _)
constructDefaultElements(m, first, k, n) ==
    IF ~Running(m) \/ k >= n THEN m
    ELSE LET m1 == DefaultConstruct(m, At(first, k)) IN
         IF Running(m1) THEN constructDefaultElements(m1, first, k + 1, n)
         ELSE UnwindRange(m1, first, k)

RECURSIVE copyElement(_, _, _, _, _)
copyElement(m, element, k, n, dst) ==
    IF k >= n THEN m
    ELSE Once(LAMBDA v :
                LET m1 == CopyConstruct(v, At(dst, k), element) IN
                IF ~Running(v) THEN v
                ELSE IF Running(m1) THEN copyElement(m1, element, k + 1, n, dst)
                ELSE UnwindRange(m1, dst, k),
              m)

RECURSIVE copyRange(_, _, _, _, _)
copyRange(m, first, k, n, dst) ==
    IF ~Running(m) \/ k >= n THEN m
    ELSE LET m1 == CopyConstruct(m, At(dst, k), At(first, k)) IN
         IF Running(m1) THEN copyRange(m1, first, k + 1, n, dst)
         ELSE UnwindRange(m1, dst, k)

RECURSIVE moveRange(_, _, _, _, _)
moveRange(m, first, k, n, dst) ==
    IF k >= n THEN m
    ELSE moveRange(Once(LAMBDA v : MoveConstruct(v, At(dst, k), At(first, k)),
                        m),
                   first, k + 1, n, dst)

AddSize(m, a, n) ==
    IF Running(m) THEN [m EXCEPT !.arr[a].size = Wrap(@ + n)] ELSE m

\* constructAtEnd(n)
constructAtEndDefault(m, a, n) ==
    AddSize(constructDefaultElements(m, end(m, a), 0, n), a, n)

\* constructAtEnd(element, n)
constructAtEndFill(m, a, element, n) ==
    AddSize(copyElement(m, element, 0, n, end(m, a)), a, n)

\* constructAtEnd(first, last, n)
constructAtEndRange(m, a, first, n) ==
    AddSize(copyRange(m, first, 0, n, end(m, a)), a, n)

destructAtEnd(m, a, n) ==
    LET m1 == IF n <= m.arr[a].size THEN m ELSE Fault(m, "assert_destructAtEnd")
        m2 == DestructRangeInReverse(m1, At(end(m1, a), 0 - n), n)
    IN [m2 EXCEPT !.arr[a].size = Wrap(@ - n + Pow2(word))]

clear(m, a) ==
    IF ~Running(m) THEN m
    ELSE IF m.arr[a].data # Null THEN destructAtEnd(m, a, m.arr[a].size) ELSE m

destroy(m, a) ==
    IF m.arr[a].data # Null
    THEN deallocate(destructAtEnd(m, a, m.arr[a].size), a)
    ELSE m

\* exception guard DestroyArray of the constructors
UnwindDestroy(m, a) ==
    IF Running(m) THEN m ELSE Rethrow(destroy(Resume(m), a), m.exc)

swap(m, a, o) ==
    [m EXCEPT !.arr[a].data = m.arr[o].data, !.arr[o].data = m.arr[a].data,
              !.arr[a].size = m.arr[o].size, !.arr[o].size = m.arr[a].size,
              !.arr[a].capacity = m.arr[o].capacity,
              !.arr[o].capacity = m.arr[a].capacity]

----------------------------------------------------------------------------
(* Reallocation *)

LengthError == -1

\* mutant: grows to the required capacity only, never doubles
extendedCapacity_exact(c, requiredCapacity) ==
    IF requiredCapacity > maxSize THEN LengthError ELSE requiredCapacity

\* extendedCapacity(requiredCapacity) of an array whose capacity is c;
\* LengthError stands for the throw of std::length_error
extendedCapacity(c, requiredCapacity) ==
    LET ms == maxSize IN
    IF requiredCapacity > ms THEN LengthError
    ELSE IF c >= ms \div 2 THEN ms
    ELSE Max(Wrap(c * 2), requiredCapacity)

\* mutant: the transaction forgets its block without deallocating it
TransactionEnd_forget(m) == [m EXCEPT !.tx = Null]

\* ~AllocateTransaction
TransactionEnd(m) ==
    IF m.tx # Null THEN [deallocateData(m, m.tx) EXCEPT !.tx = Null] ELSE m

\* std::swap(_data, transaction.data) followed by the size/capacity stores
Adopt(m, a, newSize, newCapacity) ==
    IF ~Running(m) THEN m
    ELSE [m EXCEPT !.arr[a].data = m.tx, !.tx = m.arr[a].data,
                   !.arr[a].size = newSize, !.arr[a].capacity = newCapacity]

\* new (dst) ElementT(std::forward<Args>(args)...)
Construct(m, dst, how) ==
    CASE how.kind = "copy" -> CopyConstruct(m, dst, how.src)
      [] how.kind = "move" -> MoveConstruct(m, dst, how.src)
      [] OTHER -> ArgsConstruct(m, dst, how.id)

ByCopy(src) == [kind |-> "copy", src |-> src, id |-> 0]
ByMove(src) == [kind |-> "move", src |-> src, id |-> 0]
ByArgs(id) == [kind |-> "args", src |-> Ptr(Null, 0), id |-> id]

constructOneAtEnd(m, a, how) ==
    AddSize(Construct(m, end(m, a), how), a, 1)

\* mutant: the new element is constructed from its argument before the
\* block is asked for
growAndConstructOneAt_early(m, a, i, how) ==
    LET sz == m.arr[a].size
        newSize == Wrap(sz + 1)
        newCapacity == extendedCapacity(m.arr[a].capacity, newSize)
    IN IF newCapacity = LengthError THEN Throw(m, "length_error")
       ELSE LET m0 == IF how.kind = "move" THEN Store(m, how.src, Moved) ELSE m
                m1 == allocateData(m0, newCapacity)
                dst == Ptr(m1.tx, i)
                m2 == Construct(m1, dst, how)
                m3 == moveRange(m2, begin(m2, a), 0, i, Ptr(m1.tx, 0))
                m4 == moveRange(m3, At(begin(m3, a), i), 0, sz - i, At(dst, 1))
                m5 == clear(m4, a)
            IN TransactionEnd(Adopt(m5, a, newSize, newCapacity))

growAndConstructOneAt(m, a, i, how) ==
    LET sz == m.arr[a].size
        newSize == Wrap(sz + 1)
        newCapacity == extendedCapacity(m.arr[a].capacity, newSize)
    IN IF newCapacity = LengthError THEN Throw(m, "length_error")
       ELSE LET m1 == allocateData(m, newCapacity)
                dst == Ptr(m1.tx, i)
                m2 == Construct(m1, dst, how)
                m3 == moveRange(m2, begin(m2, a), 0, i, Ptr(m1.tx, 0))
                m4 == moveRange(m3, At(begin(m3, a), i), 0, sz - i, At(dst, 1))
                m5 == clear(m4, a)
            IN TransactionEnd(Adopt(m5, a, newSize, newCapacity))

growAndConstructAtFill(m, a, i, element, n) ==
    LET sz == m.arr[a].size
        newSize == Wrap(sz + n)
        newCapacity == extendedCapacity(m.arr[a].capacity, newSize)
    IN IF newCapacity = LengthError THEN Throw(m, "length_error")
       ELSE LET m1 == allocateData(m, newCapacity)
                dst == Ptr(m1.tx, i)
                m2 == copyElement(m1, element, 0, n, dst)
                m3 == moveRange(m2, begin(m2, a), 0, i, Ptr(m1.tx, 0))
                m4 == moveRange(m3, At(begin(m3, a), i), 0, sz - i, At(dst, n))
                m5 == clear(m4, a)
            IN TransactionEnd(Adopt(m5, a, newSize, newCapacity))

\* mutant: the existing elements are moved before the new ones are copied
growAndConstructAtRange_moveFirst(m, a, i, first, n) ==
    LET sz == m.arr[a].size
        newSize == Wrap(sz + n)
        newCapacity == extendedCapacity(m.arr[a].capacity, newSize)
    IN IF newCapacity = LengthError THEN Throw(m, "length_error")
       ELSE LET m1 == allocateData(m, newCapacity)
                dst == Ptr(m1.tx, i)
                m2 == moveRange(m1, begin(m1, a), 0, i, Ptr(m1.tx, 0))
                m3 == moveRange(m2, At(begin(m2, a), i), 0, sz - i, At(dst, n))
                m4 == copyRange(m3, first, 0, n, dst)
                m5 == clear(m4, a)
            IN TransactionEnd(Adopt(m5, a, newSize, newCapacity))

growAndConstructAtRange(m, a, i, first, n) ==
    LET sz == m.arr[a].size
        newSize == Wrap(sz + n)
        newCapacity == extendedCapacity(m.arr[a].capacity, newSize)
    IN IF newCapacity = LengthError THEN Throw(m, "length_error")
       ELSE LET m1 == allocateData(m, newCapacity)
                dst == Ptr(m1.tx, i)
                m2 == copyRange(m1, first, 0, n, dst)
                m3 == moveRange(m2, begin(m2, a), 0, i, Ptr(m1.tx, 0))
                m4 == moveRange(m3, At(begin(m3, a), i), 0, sz - i, At(dst, n))
                m5 == clear(m4, a)
            IN TransactionEnd(Adopt(m5, a, newSize, newCapacity))

\* mutant: the old block is kept when it is large enough
copyFill_reuse(m, a, element, n) ==
    IF n > m.arr[a].capacity
    THEN LET m1 == allocateData(m, n)
             m2 == copyElement(m1, element, 0, n, Ptr(m1.tx, 0))
             m3 == clear(m2, a)
         IN TransactionEnd(Adopt(m3, a, n, n))
    ELSE constructAtEndFill(clear(m, a), a, element, n)

\* DArray::copy(element, n)
copyFill(m, a, element, n) ==
    IF n > 0
    THEN LET m1 == allocateData(m, n)
             m2 == copyElement(m1, element, 0, n, Ptr(m1.tx, 0))
             m3 == clear(m2, a)
         IN TransactionEnd(Adopt(m3, a, n, n))
    ELSE clear(m, a)

\* mutant: the old contents are cleared before the new ones are copied
copyFromRange_clearFirst(m, a, first, n) ==
    IF n > 0
    THEN LET m1 == allocateData(clear(m, a), n)
             m2 == copyRange(m1, first, 0, n, Ptr(m1.tx, 0))
         IN TransactionEnd(Adopt(m2, a, n, n))
    ELSE clear(m, a)

\* DArray::copy(first, last, n)
copyFromRange(m, a, first, n) ==
    IF n > 0
    THEN LET m1 == allocateData(m, n)
             m2 == copyRange(m1, first, 0, n, Ptr(m1.tx, 0))
             m3 == clear(m2, a)
         IN TransactionEnd(Adopt(m3, a, n, n))
    ELSE clear(m, a)

----------------------------------------------------------------------------
(* Shifting the tail *)

Assert_(m, cond, name) == IF cond THEN m ELSE Fault(m, name)

\* one step of the shift loops: move *src to *dst, then destroy *src
Relocate(m, dst, src) ==
    Once(LAMBDA v : IF Running(v) THEN Destruct(v, src) ELSE v,
         Once(LAMBDA v : MoveConstruct(v, dst, src), m))

RECURSIVE shiftRightLoop(_, _, _, _, _)
shiftRightLoop(m, b, k, i, n) ==
    IF k < i THEN m
    ELSE shiftRightLoop(Relocate(m, Ptr(b, k + n), Ptr(b, k)), b, k - 1, i, n)

\* mutant: the element at position stays where it is
shiftTailRight_short(m, a, i, n) ==
    LET sz == m.arr[a].size
        m2 == shiftRightLoop(m, m.arr[a].data, sz - 1, i + 1, n)
    IN [m2 EXCEPT !.arr[a].size = Wrap(sz + n)]

\* shiftTailRight(position, n) with position = begin() + i
shiftTailRight(m, a, i, n) ==
    LET sz == m.arr[a].size
        m1 == Assert_(m, i >= 0 /\ i < sz /\ n > 0
                         /\ Wrap(sz + n) <= m.arr[a].capacity,
                      "assert_shiftTailRight")
        m2 == shiftRightLoop(m1, m.arr[a].data, sz - 1, i, n)
    IN Noexcept([m2 EXCEPT !.arr[a].size = Wrap(sz + n)])

RECURSIVE shiftLeftLoop(_, _, _, _, _)
shiftLeftLoop(m, b, k, sz, n) ==
    IF k >= sz THEN m
    ELSE shiftLeftLoop(Relocate(m, Ptr(b, k - n), Ptr(b, k)), b, k + 1, sz, n)

\* mutant: the tail moves left by one whatever n is
shiftTailLeft_byOne(m, a, i, n) ==
    LET sz == m.arr[a].size
        m2 == shiftLeftLoop(m, m.arr[a].data, i, sz, 1)
    IN [m2 EXCEPT !.arr[a].size = Wrap(sz - n + Pow2(word))]

\* shiftTailLeft(position, n) with position = begin() + i
shiftTailLeft(m, a, i, n) ==
    LET sz == m.arr[a].size
        m1 == Assert_(m, i >= 0 /\ i < sz /\ n > 0 /\ i - n >= 0,
                      "assert_shiftTailLeft")
        m2 == shiftLeftLoop(m1, m.arr[a].data, i, sz, n)
    IN Noexcept([m2 EXCEPT !.arr[a].size = Wrap(sz - n + Pow2(word))])

\* mutant: no guard, the tail stays shifted
UnwindShift_none(m, a, i, n) == m

\* exception guard ShiftArrayTailLeft(*this, position, n)
UnwindShift(m, a, i, n) ==
    IF Running(m) THEN m ELSE Rethrow(shiftTailLeft(Resume(m), a, i, n), m.exc)

\* mutant: the source is read where it was before the shift
Shifted_stale(m, a, i, src, n) == src

\* the source of an insert after the tail was shifted right by n
Shifted(m, a, i, src, n) ==
    IF isPointerInRange(At(begin(m, a), i), end(m, a), src) THEN At(src, n)
    ELSE src

shiftAndEmplaceOneAt(m, a, i, how) ==
    LET m1 == shiftTailRight(m, a, i, 1)
    IN UnwindShift(Construct(m1, At(begin(m1, a), i), how), a, i + 1, 1)

shiftAndConstructOneAtCopy(m, a, i, element) ==
    LET m1 == shiftTailRight(m, a, i, 1)
        src == Shifted(m1, a, i, element, 1)
    IN UnwindShift(CopyConstruct(m1, At(begin(m1, a), i), src), a, i + 1, 1)

shiftAndConstructOneAtMove(m, a, i, element) ==
    LET m1 == shiftTailRight(m, a, i, 1)
        src == Shifted(m1, a, i, element, 1)
    IN Noexcept(MoveConstruct(m1, At(begin(m1, a), i), src))

shiftAndConstructAtFill(m, a, i, element, n) ==
    LET m1 == shiftTailRight(m, a, i, n)
        src == Shifted(m1, a, i, element, n)
    IN UnwindShift(copyElement(m1, src, 0, n, At(begin(m1, a), i)), a, i + n, n)

shiftAndConstructAtRange(m, a, i, first, n) ==
    LET m1 == shiftTailRight(m, a, i, n)
        src == Shifted(m1, a, i, first, n)
    IN UnwindShift(copyRange(m1, src, 0, n, At(begin(m1, a), i)), a, i + n, n)

\* destructAt(position, n) with position = begin() + i
destructAt(m, a, i, n) ==
    LET sz == m.arr[a].size
        m1 == Assert_(m, i >= 0 /\ i < sz - 1 /\ n > 0 /\ i + n <= sz,
                      "assert_destructAt")
        m2 == DestructRangeInReverse(m1, At(begin(m1, a), i), n)
    IN shiftTailLeft(m2, a, i + n, n)

----------------------------------------------------------------------------
(* Public member functions.  A position is given by its index i from       *)
(* begin(); a source object by a pointer (Ext block: the caller's own).    *)

Created(m, a) == [m EXCEPT !.arr[a].alive = Running(m)]

\* explicit DArray(size_t n)
DArraySize(m, a, n) ==
    IF n > 0
    THEN LET m1 == allocate(m, a, n)
         IN UnwindDestroy(constructAtEndDefault(m1, a, n), a)
    ELSE m

\* DArray(const ElementT& x, size_t n)
DArrayFill(m, a, element, n) ==
    IF n > 0
    THEN LET m1 == allocate(m, a, n)
         IN UnwindDestroy(constructAtEndFill(m1, a, element, n), a)
    ELSE m

\* DArray(first, last), DArray(std::initializer_list), n = last - first
DArrayRange(m, a, first, n) ==
    IF n > 0
    THEN LET m1 == allocate(m, a, n)
         IN UnwindDestroy(constructAtEndRange(m1, a, first, n), a)
    ELSE m

\* mutant: the copy takes the capacity of the source
DArrayCopy_capacity(m, a, o) ==
    IF m.arr[o].capacity > 0
    THEN LET m1 == allocate(m, a, m.arr[o].capacity)
         IN UnwindDestroy(
                constructAtEndRange(m1, a, begin(m1, o), m.arr[o].size), a)
    ELSE m

\* DArray(const DArray& other)
DArrayCopy(m, a, o) ==
    IF m.arr[o].size > 0
    THEN LET m1 == allocate(m, a, m.arr[o].size)
         IN UnwindDestroy(
                constructAtEndRange(m1, a, begin(m1, o), m.arr[o].size), a)
    ELSE m

\* DArray(DArray&& other)
DArrayMove(m, a, o) == swap(m, a, o)

\* ~DArray()
Destructor(m, a) == [destroy(m, a) EXCEPT !.arr[a].alive = FALSE]

\* mutant: no test for this == &other
assignCopy_unguarded(m, a, o) ==
    copyFromRange(m, a, begin(m, o), m.arr[o].size)

\* operator=(const DArray& other)
assignCopy(m, a, o) ==
    IF a # o THEN copyFromRange(m, a, begin(m, o), m.arr[o].size) ELSE m

\* mutant: the target's old contents go to the source instead of being
\* destroyed
assignMove_swapOnly(m, a, o) ==
    IF a # o THEN swap(m, a, o) ELSE m

\* operator=(DArray&& other)
assignMove(m, a, o) ==
    IF a # o THEN swap(destroy(m, a), a, o) ELSE m

\* mutant: reserves by the growth policy instead of exactly n
reserve_grown(m, a, n) ==
    IF n > m.arr[a].capacity
    THEN IF n > maxSize THEN Throw(m, "length_error")
         ELSE LET c == extendedCapacity(m.arr[a].capacity, n)
                  m1 == allocateData(m, c)
                  m2 == moveRange(m1, begin(m1, a), 0, m1.arr[a].size,
                                  Ptr(m1.tx, 0))
              IN TransactionEnd(Adopt(m2, a, m2.arr[a].size, c))
    ELSE m

reserve(m, a, n) ==
    IF n > m.arr[a].capacity
    THEN IF n > maxSize THEN Throw(m, "length_error")
         ELSE LET m1 == allocateData(m, n)
                  m2 == moveRange(m1, begin(m1, a), 0, m1.arr[a].size,
                                  Ptr(m1.tx, 0))
              IN TransactionEnd(Adopt(m2, a, m2.arr[a].size, n))
    ELSE m

\* mutant: no catch (...) around the reallocation
shrinkToFit_uncaught(m, a) ==
    IF m.arr[a].capacity > m.arr[a].size
    THEN IF m.arr[a].size > 0
         THEN LET m1 == allocateData(m, m.arr[a].size)
                  m2 == moveRange(m1, begin(m1, a), 0, m1.arr[a].size,
                                  Ptr(m1.tx, 0))
                  m3 == Adopt(m2, a, m2.arr[a].size, m2.arr[a].size)
              IN TransactionEnd(m3)
         ELSE deallocate(m, a)
    ELSE m

shrinkToFit(m, a) ==
    IF m.arr[a].capacity > m.arr[a].size
    THEN IF m.arr[a].size > 0
         THEN LET m1 == allocateData(m, m.arr[a].size)
                  m2 == moveRange(m1, begin(m1, a), 0, m1.arr[a].size,
                                  Ptr(m1.tx, 0))
                  m3 == Adopt(m2, a, m2.arr[a].size, m2.arr[a].size)
              IN Resume(TransactionEnd(m3))
         ELSE deallocate(m, a)
    ELSE m

\* insert(position, const ElementT& element)
insertCopy(m, a, i, element) ==
    IF m.arr[a].size < m.arr[a].capacity
    THEN IF i = m.arr[a].size THEN constructOneAtEnd(m, a, ByCopy(element))
         ELSE shiftAndConstructOneAtCopy(m, a, i, element)
    ELSE growAndConstructOneAt(m, a, i, ByCopy(element))

\* insert(position, ElementT&& element)
insertMove(m, a, i, element) ==
    IF m.arr[a].size < m.arr[a].capacity
    THEN IF i = m.arr[a].size THEN constructOneAtEnd(m, a, ByMove(element))
         ELSE shiftAndConstructOneAtMove(m, a, i, element)
    ELSE growAndConstructOneAt(m, a, i, ByMove(element))

\* insert(position, const ElementT& element, size_t n)
insertFill(m, a, i, element, n) ==
    IF n > 0
    THEN IF Wrap(m.arr[a].size + n) <= m.arr[a].capacity
         THEN IF i = m.arr[a].size THEN constructAtEndFill(m, a, element, n)
              ELSE shiftAndConstructAtFill(m, a, i, element, n)
         ELSE growAndConstructAtFill(m, a, i, element, n)
    ELSE m

\* insert(position, first, last), insert(position, std::initializer_list)
insertRange(m, a, i, first, n) ==
    IF n > 0
    THEN IF Wrap(m.arr[a].size + n) <= m.arr[a].capacity
         THEN IF i = m.arr[a].size THEN constructAtEndRange(m, a, first, n)
              ELSE shiftAndConstructAtRange(m, a, i, first, n)
         ELSE growAndConstructAtRange(m, a, i, first, n)
    ELSE m

\* mutant: always erases the last element
eraseOne_last(m, a, i) == destructAtEnd(m, a, 1)

\* erase(position)
eraseOne(m, a, i) ==
    IF i = m.arr[a].size - 1 THEN destructAtEnd(m, a, 1)
    ELSE destructAt(m, a, i, 1)

\* erase(first, last) with first = begin() + i, last = begin() + j
eraseRange(m, a, i, j) ==
    IF j = m.arr[a].size THEN destructAtEnd(m, a, j - i)
    ELSE destructAt(m, a, i, j - i)

\* push(const ElementT&), push(ElementT&&), emplaceAtEnd(args...)
push(m, a, how) ==
    IF m.arr[a].size < m.arr[a].capacity THEN constructOneAtEnd(m, a, how)
    ELSE growAndConstructOneAt(m, a, m.arr[a].size, how)

pop(m, a) == destructAtEnd(m, a, 1)

\* emplace(position, args...)
emplace(m, a, i, how) ==
    IF m.arr[a].size < m.arr[a].capacity
    THEN IF i = m.arr[a].size THEN constructOneAtEnd(m, a, how)
         ELSE shiftAndEmplaceOneAt(m, a, i, how)
    ELSE growAndConstructOneAt(m, a, i, how)

----------------------------------------------------------------------------
(* State functions *)

\* the elements of array a, in order
ElemsOf(ar, hp, a) ==
    IF ar[a].data \in Blocks /\ hp[ar[a].data].live
    THEN [k \in 1..Min(ar[a].size, Len(hp[ar[a].data].slots)) |->
              hp[ar[a].data].slots[k]]
    ELSE <<>>

Elems(a) == ElemsOf(arr, heap, a)

\* the whole block of array a
SlotsOf(a) == IF arr[a].data \in Blocks THEN heap[arr[a].data].slots ELSE <<>>

RECURSIVE SumOver(_, _)
SumOver(f, S) ==
    IF S = {} THEN 0
    ELSE LET e == CHOOSE e \in S : TRUE IN f[e] + SumOver(f, S \ {e})

TotalCapacity == SumOver([a \in Arrs |-> arr[a].capacity], Arrs)
TotalSize == SumOver([a \in Arrs |-> arr[a].size], Arrs)


NoArray == [alive |-> FALSE, data |-> Null, size |-> 0, capacity |-> 0]

InputsUpTo(n) == UNION {[1..k -> Values] : k \in 0..n}
ExtPtr == Ptr(Ext, 0)
NoRet == Ptr(Null, -1)

NoCall ==
    [op |-> "none", a |-> "x", o |-> "x", exc |-> "none", i |-> 0, j |-> 0,
     n |-> 0, args |-> <<>>, ext |-> <<>>, ret |-> NoRet, cons |-> 0,
     des |-> <<>>, allocs |-> 0, deallocs |-> 0, faults |-> {},
     pre |-> [a \in Arrs |-> NoArray], was |-> [a \in Arrs |-> <<>>]]

\* The call op on array a ran to m.
Return(m, op, a, o, i, j, n, args, ret) ==
    /\ arr' = m.arr
    /\ heap' = m.heap
    /\ word' = word
    /\ blocksOut' = blocksOut + m.allocs - m.deallocs
    /\ faults' = faults \cup m.faults
    /\ last' = [op |-> op, a |-> a, o |-> o, exc |-> m.exc, i |-> i, j |-> j,
                n |-> n, args |-> args, ext |-> m.ext,
                ret |-> IF Running(m) THEN ret ELSE NoRet, cons |-> m.cons,
                des |-> m.des, allocs |-> m.allocs, deallocs |-> m.deallocs,
                faults |-> m.faults,
                pre |-> arr, was |-> [b \in Arrs |-> Elems(b)]]
    /\ UNCHANGED uvars

\* the caller is between two calls
Idle == last.op = "none"

Dead(a) == ~arr[a].alive
Alive(a) == arr[a].alive

----------------------------------------------------------------------------
(* Actions: one per public member function *)

ConstructDefault(a) ==
    /\ Dead(a)
    /\ LET m == Created(Begin(<<>>, NoFailure), a)
       IN Return(m, "DArray()", a, a, 0, 0, 0, <<>>, NoRet)

ConstructSize(a, n, f) ==
    /\ Dead(a)
    /\ LET m == Created(DArraySize(Begin(<<>>, f), a, n), a)
       IN Return(m, "DArray(n)", a, a, 0, 0, n, <<>>, NoRet)

ConstructFill(a, v, n, f) ==
    /\ Dead(a)
    /\ LET m == Created(DArrayFill(Begin(<<v>>, f), a, ExtPtr, n), a)
       IN Return(m, "DArray(x,n)", a, a, 0, 0, n, <<v>>, NoRet)

ConstructRange(a, in, f) ==
    /\ Dead(a)
    /\ LET m == Created(DArrayRange(Begin(in, f), a, ExtPtr, Len(in)), a)
       IN Return(m, "DArray(first,last)", a, a, 0, 0, Len(in), in, NoRet)

ConstructCopy(a, o, f) ==
    /\ Dead(a) /\ Alive(o)
    /\ LET m == Created(DArrayCopy(Begin(<<>>, f), a, o), a)
       IN Return(m, "DArray(const&)", a, o, 0, 0, arr[o].size, Elems(o), NoRet)

ConstructMove(a, o) ==
    /\ Dead(a) /\ Alive(o)
    /\ LET m == Created(DArrayMove(Begin(<<>>, NoFailure), a, o), a)
       IN Return(m, "DArray(&&)", a, o, 0, 0, 0, <<>>, NoRet)

Destroy(a) ==
    /\ Alive(a)
    /\ LET m == Destructor(Begin(<<>>, NoFailure), a)
       IN Return(m, "~DArray", a, a, 0, 0, 0, <<>>, NoRet)

\* assign(element, n)
AssignFill(a, v, n, f) ==
    /\ Alive(a)
    /\ LET m == copyFill(Begin(<<v>>, f), a, ExtPtr, n)
       IN Return(m, "assign(x,n)", a, a, 0, 0, n, <<v>>, NoRet)

\* assign(first, last) and operator=(std::initializer_list)
AssignRange(a, in, f) ==
    /\ Alive(a)
    /\ LET m == copyFromRange(Begin(in, f), a, ExtPtr, Len(in))
       IN Return(m, "assign(first,last)", a, a, 0, 0, Len(in), in, NoRet)

\* a = o
AssignCopy(a, o, f) ==
    /\ Alive(a) /\ Alive(o)
    /\ LET m == assignCopy(Begin(<<>>, f), a, o)
       IN Return(m, "=(const&)", a, o, 0, 0, arr[o].size, Elems(o), NoRet)

\* a = std::move(o)
AssignMove(a, o) ==
    /\ Alive(a) /\ Alive(o)
    /\ LET m == assignMove(Begin(<<>>, NoFailure), a, o)
       IN Return(m, "=(&&)", a, o, 0, 0, 0, <<>>, NoRet)

Reserve(a, n, f) ==
    /\ Alive(a)
    /\ LET m == reserve(Begin(<<>>, f), a, n)
       IN Return(m, "reserve", a, a, 0, 0, n, <<>>, NoRet)

ShrinkToFit(a, f) ==
    /\ Alive(a)
    /\ LET m == shrinkToFit(Begin(<<>>, f), a)
       IN Return(m, "shrinkToFit", a, a, 0, 0, 0, <<>>, NoRet)

Clear(a) ==
    /\ Alive(a)
    /\ LET m == clear(Begin(<<>>, NoFailure), a)
       IN Return(m, "clear", a, a, 0, 0, 0, <<>>, NoRet)

InsertCopy(a, i, v, f) ==
    /\ Alive(a) /\ i \in 0..arr[a].size
    /\ LET m == insertCopy(Begin(<<v>>, f), a, i, ExtPtr)
       IN Return(m, "insert(p,x)", a, a, i, 0, 1, <<v>>, Ptr(m.arr[a].data, i))

InsertMove(a, i, v, f) ==
    /\ Alive(a) /\ i \in 0..arr[a].size
    /\ LET m == insertMove(Begin(<<v>>, f), a, i, ExtPtr)
       IN Return(m, "insert(p,&&)", a, a, i, 0, 1, <<v>>, Ptr(m.arr[a].data, i))

InsertFill(a, i, v, n, f) ==
    /\ Alive(a) /\ i \in 0..arr[a].size
    /\ LET m == insertFill(Begin(<<v>>, f), a, i, ExtPtr, n)
       IN Return(m, "insert(p,x,n)", a, a, i, 0, n, <<v>>,
                 Ptr(m.arr[a].data, i))

\* insert(position, first, last) and insert(position, initializer_list)
InsertRange(a, i, in, f) ==
    /\ Alive(a) /\ i \in 0..arr[a].size
    /\ LET m == insertRange(Begin(in, f), a, i, ExtPtr, Len(in))
       IN Return(m, "insert(p,first,last)", a, a, i, 0, Len(in), in,
                 Ptr(m.arr[a].data, i))

\* erase(position): position designates an element
Erase(a, i) ==
    /\ Alive(a) /\ i \in 0..(arr[a].size - 1)
    /\ LET m == eraseOne(Begin(<<>>, NoFailure), a, i)
       IN Return(m, "erase(p)", a, a, i, i + 1, 1, <<>>, Ptr(m.arr[a].data, i))

\* erase(first, last) over a non-empty range
EraseRange(a, i, j) ==
    /\ Alive(a) /\ i \in 0..(arr[a].size - 1) /\ j \in (i + 1)..arr[a].size
    /\ LET m == eraseRange(Begin(<<>>, NoFailure), a, i, j)
       IN Return(m, "erase(first,last)", a, a, i, j, j - i, <<>>,
                 Ptr(m.arr[a].data, i))

\* erase(first, last) with first = last = begin() + i
EraseEmpty(a, i) ==
    /\ Alive(a) /\ i \in 0..arr[a].size
    /\ LET m == eraseRange(Begin(<<>>, NoFailure), a, i, i)
       IN Return(m, "erase(first,first)", a, a, i, i, 0, <<>>,
                 Ptr(m.arr[a].data, i))

PushCopy(a, v, f) ==
    /\ Alive(a)
    /\ LET m == push(Begin(<<v>>, f), a, ByCopy(ExtPtr))
       IN Return(m, "push(const&)", a, a, arr[a].size, 0, 1, <<v>>, NoRet)

PushMove(a, v, f) ==
    /\ Alive(a)
    /\ LET m == push(Begin(<<v>>, f), a, ByMove(ExtPtr))
       IN Return(m, "push(&&)", a, a, arr[a].size, 0, 1, <<v>>, NoRet)

\* pop(): the array is not empty
Pop(a) ==
    /\ Alive(a) /\ arr[a].size > 0
    /\ LET m == pop(Begin(<<>>, NoFailure), a)
       IN Return(m, "pop", a, a, 0, 0, 1, <<>>, NoRet)

\* emplaceAtEnd(id, dummy) returns back()
EmplaceAtEnd(a, v, f) ==
    /\ Alive(a)
    /\ LET m == push(Begin(<<>>, f), a, ByArgs(v))
       IN Return(m, "emplaceAtEnd", a, a, arr[a].size, 0, 1, <<v>>,
                 Ptr(m.arr[a].data, m.arr[a].size - 1))

\* emplace(position, id, dummy) returns _data[index]
Emplace(a, i, v, f) ==
    /\ Alive(a) /\ i \in 0..arr[a].size
    /\ LET m == emplace(Begin(<<>>, f), a, i, ByArgs(v))
       IN Return(m, "emplace", a, a, i, 0, 1, <<v>>, Ptr(m.arr[a].data, i))

Swap(a, o) ==
    /\ Alive(a) /\ Alive(o)
    /\ LET m == swap(Begin(<<>>, NoFailure), a, o)
       IN Return(m, "swap", a, o, 0, 0, 0, <<>>, NoRet)

----------------------------------------------------------------------------
(* UniquePointer<ValueT, DeleterT>: two objects "p" and "q"; the objects   *)
(* they own live at the addresses 1..NObjs.                                *)

UPtrs == {"p", "q"}
Objs == 1..NObjs
Deleters == 0..MaxDeleter

\* ValueT* _pointer = nullptr; DeleterT _deleter;
NoPointer == [alive |-> FALSE, pointer |-> Null, deleter |-> 0]

NoUCall ==
    [op |-> "none", dst |-> "p", src |-> "p",
     pre |-> [p \in UPtrs |-> NoPointer], deleted |-> <<>>, ret |-> Null]

UBegin ==
    [uptr |-> uptr, objs |-> objs, deleted |-> <<>>, faults |-> {},
     ret |-> Null]

\* new T(...)
NewObject(u) ==
    LET k == CHOOSE k \in Objs :
                 u.objs[k] = "free" /\ \A j \in Objs : u.objs[j] = "free" => k <= j
    IN [u EXCEPT !.objs[k] = "live", !.ret = k]

\* _deleter(pointer): delete pointer
Delete(u, d, pointer) ==
    LET u1 == IF pointer \in Objs /\ u.objs[pointer] = "live"
              THEN [u EXCEPT !.objs[pointer] = "free"]
              ELSE [u EXCEPT !.faults = @ \cup {"delete_dead_object"}]
    IN [u1 EXCEPT !.deleted = Append(@, [pointer |-> pointer, deleter |-> d])]

\* mutant: the pointer is returned but not given up
release_keeps(u, p) == [u EXCEPT !.ret = u.uptr[p].pointer]

release(u, p) ==
    [u EXCEPT !.ret = u.uptr[p].pointer, !.uptr[p].pointer = Null]

reset(u, p, pointer) ==
    LET oldPointer == u.uptr[p].pointer
        u1 == [u EXCEPT !.uptr[p].pointer = pointer]
    IN IF oldPointer # Null THEN Delete(u1, u1.uptr[p].deleter, oldPointer)
       ELSE u1

get(u, p) == [u EXCEPT !.ret = u.uptr[p].pointer]

\* UniquePointer(), UniquePointer(nullptr_t), UniquePointer(ValueT* pointer)
UniquePointerFrom(u, p, pointer) ==
    [u EXCEPT !.uptr[p] = [alive |-> TRUE, pointer |-> pointer, deleter |-> 0]]

\* UniquePointer(UniquePointer&& other)
UniquePointerMove(u, p, other) ==
    LET u1 == release(u, other)
    IN [u1 EXCEPT !.uptr[p] = [alive |-> TRUE, pointer |-> u1.ret,
                               deleter |-> u1.uptr[other].deleter]]

\* ~UniquePointer()
UniquePointerEnd(u, p) == [reset(u, p, Null) EXCEPT !.uptr[p].alive = FALSE]

\* mutant: the source keeps its pointer
moveAssign_shared(u, p, other) ==
    LET u2 == reset(u, p, u.uptr[other].pointer)
    IN [u2 EXCEPT !.uptr[p].deleter = u2.uptr[other].deleter]

\* operator=(UniquePointer&& other)
moveAssign(u, p, other) ==
    LET u1 == release(u, other)
        u2 == reset(u1, p, u1.ret)
    IN [u2 EXCEPT !.uptr[p].deleter = u2.uptr[other].deleter]

\* swap(UniquePointer& other)
swapPointers(u, p, other) ==
    [u EXCEPT !.uptr[p].pointer = u.uptr[other].pointer,
              !.uptr[other].pointer = u.uptr[p].pointer,
              !.uptr[p].deleter = u.uptr[other].deleter,
              !.uptr[other].deleter = u.uptr[p].deleter]

\* raw pointers in the caller's hands: live objects no UniquePointer holds
Loose == {k \in Objs : objs[k] = "live" /\ \A p \in UPtrs : uptr[p].pointer # k}

\* the pointer a caller passes: nullptr, a fresh new T (Fresh), or one it
\* holds
Fresh == -1

Given(u, from) ==
    IF from = Fresh THEN NewObject(u) ELSE [u EXCEPT !.ret = from]

Givable ==
    {Null} \cup Loose
        \cup (IF \E k \in Objs : objs[k] = "free" THEN {Fresh} ELSE {})

UReturn(u, op, dst, src) ==
    /\ uptr' = u.uptr
    /\ objs' = u.objs
    /\ faults' = faults \cup u.faults
    /\ ulast' = [op |-> op, dst |-> dst, src |-> src, pre |-> uptr,
                 deleted |-> u.deleted, ret |-> u.ret]
    /\ UNCHANGED <<arr, heap, word, blocksOut, last>>

UConstruct(p, from) ==
    /\ ~uptr[p].alive /\ from \in Givable
    /\ LET u == Given(UBegin, from)
       IN UReturn(UniquePointerFrom(u, p, u.ret), "UniquePointer(T*)", p, p)

UConstructMove(p, other) ==
    /\ ~uptr[p].alive /\ uptr[other].alive /\ p # other
    /\ UReturn(UniquePointerMove(UBegin, p, other), "UniquePointer(&&)",
               p, other)

UDestroy(p) ==
    /\ uptr[p].alive
    /\ UReturn(UniquePointerEnd(UBegin, p), "~UniquePointer", p, p)

UAssignNull(p) ==
    /\ uptr[p].alive
    /\ UReturn(reset(UBegin, p, Null), "=(nullptr)", p, p)

UAssignMove(p, other) ==
    /\ uptr[p].alive /\ uptr[other].alive
    /\ UReturn(moveAssign(UBegin, p, other), "=(UniquePointer&&)", p, other)

URelease(p) ==
    /\ uptr[p].alive
    /\ UReturn(release(UBegin, p), "release", p, p)

UReset(p, from) ==
    /\ uptr[p].alive /\ from \in Givable
    /\ LET u == Given(UBegin, from)
       IN UReturn(reset(u, p, u.ret), "reset", p, p)

USwap(p, other) ==
    /\ uptr[p].alive /\ uptr[other].alive
    /\ UReturn(swapPointers(UBegin, p, other), "swap", p, other)

UGet(p) ==
    /\ uptr[p].alive
    /\ UReturn(get(UBegin, p), "get", p, p)

\* getDeleter() = d
USetDeleter(p, d) ==
    /\ uptr[p].alive /\ uptr[p].deleter # d
    /\ UReturn([UBegin EXCEPT !.uptr[p].deleter = d], "getDeleter", p, p)

\* the caller deletes a raw pointer it got from release()
UDelete(k) ==
    /\ k \in Loose
    /\ UReturn(Delete(UBegin, 0, k), "delete", "p", "p")

NextUnique ==
    \/ \E p \in UPtrs, from \in {Fresh, Null} \cup Objs : UConstruct(p, from)
    \/ \E p \in UPtrs, o \in UPtrs : UConstructMove(p, o)
    \/ \E p \in UPtrs : UDestroy(p)
    \/ \E p \in UPtrs : UAssignNull(p)
    \/ \E p \in UPtrs, o \in UPtrs : UAssignMove(p, o)
    \/ \E p \in UPtrs : URelease(p)
    \/ \E p \in UPtrs, from \in {Fresh, Null} \cup Objs : UReset(p, from)
    \/ \E p \in UPtrs, o \in UPtrs : USwap(p, o)
    \/ \E p \in UPtrs : UGet(p)
    \/ \E p \in UPtrs, d \in Deleters : USetDeleter(p, d)
    \/ \E k \in Objs : UDelete(k)

----------------------------------------------------------------------------
(* The program: array objects are created, used and destroyed in any order *)

Init ==
    /\ arr = [a \in Arrs |-> NoArray]
    /\ heap = [b \in Blocks |-> [live |-> FALSE, slots |-> <<>>]]
    /\ word = WordBits
    /\ blocksOut = 0
    /\ faults = {}
    /\ last = NoCall
    /\ uptr = [p \in UPtrs |-> NoPointer]
    /\ objs = [k \in Objs |-> "free"]
    /\ ulast = NoUCall

\* The caller takes the result (or catches the exception) and goes on.
Continue ==
    /\ ~Idle
    /\ last' = NoCall
    /\ UNCHANGED <<arr, heap, word, blocksOut, faults>>
    /\ UNCHANGED uvars

\* requested capacities: small ones and one beyond maxSize()
Requests(top) == 0..top \cup {maxSize + 1}

\* failure plans of a call that makes up to n constructions that may throw
Plans(n) == -1..n

\* Every member function on array a, with positions and capacities up to
\* top, insert counts up to cnt, constructor and assign counts up to init.
Unary(a, top, cnt, init) ==
    \/ Idle /\ ConstructDefault(a) /\ TotalCapacity' <= top
    \/ \E n \in 0..init, f \in Plans(init) :
          Idle /\ f <= n /\ ConstructSize(a, n, f) /\ TotalCapacity' <= top
    \/ \E v \in Values, n \in 0..init, f \in Plans(init) :
          Idle /\ f <= n /\ ConstructFill(a, v, n, f) /\ TotalCapacity' <= top
    \/ \E in \in InputsUpTo(init), f \in Plans(init) :
          Idle /\ f <= Len(in) /\ ConstructRange(a, in, f)
               /\ TotalCapacity' <= top
    \/ Idle /\ Destroy(a) /\ TotalCapacity' <= top
    \/ \E v \in Values, n \in 0..cnt, f \in Plans(cnt) :
          Idle /\ f <= n /\ AssignFill(a, v, n, f) /\ TotalCapacity' <= top
    \/ \E in \in InputsUpTo(cnt), f \in Plans(cnt) :
          Idle /\ f <= Len(in) /\ AssignRange(a, in, f) /\ TotalCapacity' <= top
    \/ \E n \in Requests(top), f \in Plans(0) :
          Idle /\ Reserve(a, n, f) /\ TotalCapacity' <= top
    \/ \E f \in Plans(0) : Idle /\ ShrinkToFit(a, f) /\ TotalCapacity' <= top
    \/ Idle /\ Clear(a) /\ TotalCapacity' <= top
    \/ \E i \in 0..top, v \in Values, f \in Plans(1) :
          Idle /\ InsertCopy(a, i, v, f) /\ TotalCapacity' <= top
    \/ \E i \in 0..top, v \in Values, f \in Plans(0) :
          Idle /\ InsertMove(a, i, v, f) /\ TotalCapacity' <= top
    \/ \E i \in 0..top, v \in Values, n \in 0..cnt, f \in Plans(cnt) :
          Idle /\ f <= n /\ InsertFill(a, i, v, n, f) /\ TotalCapacity' <= top
    \/ \E i \in 0..top, in \in InputsUpTo(cnt), f \in Plans(cnt) :
          Idle /\ f <= Len(in) /\ InsertRange(a, i, in, f)
               /\ TotalCapacity' <= top
    \/ \E i \in 0..top : Idle /\ Erase(a, i) /\ TotalCapacity' <= top
    \/ \E i \in 0..top, j \in 0..top :
          Idle /\ EraseRange(a, i, j) /\ TotalCapacity' <= top
    \/ \E v \in Values, f \in Plans(1) :
          Idle /\ PushCopy(a, v, f) /\ TotalCapacity' <= top
    \/ \E v \in Values, f \in Plans(0) :
          Idle /\ PushMove(a, v, f) /\ TotalCapacity' <= top
    \/ Idle /\ Pop(a) /\ TotalCapacity' <= top
    \/ \E v \in Values, f \in Plans(1) :
          Idle /\ EmplaceAtEnd(a, v, f) /\ TotalCapacity' <= top
    \/ \E i \in 0..top, v \in Values, f \in Plans(1) :
          Idle /\ Emplace(a, i, v, f) /\ TotalCapacity' <= top

\* The member functions that take another array.
Binary(a, o, top) ==
    \/ \E f \in Plans(top) :
          Idle /\ ConstructCopy(a, o, f) /\ TotalCapacity' <= top
    \/ Idle /\ ConstructMove(a, o) /\ TotalCapacity' <= top
    \/ \E f \in Plans(top) :
          Idle /\ AssignCopy(a, o, f) /\ TotalCapacity' <= top
    \/ Idle /\ AssignMove(a, o) /\ TotalCapacity' <= top
    \/ Idle /\ Swap(a, o) /\ TotalCapacity' <= top

\* assign(arr[k], n): the value is an element of the array itself
AssignFillOwn(a, k, n, f) ==
    /\ Alive(a) /\ k \in 0..(arr[a].size - 1)
    /\ LET m == copyFill(Begin(<<>>, f), a, Ptr(arr[a].data, k), n)
       IN Return(m, "assign(own,n)", a, a, k, 0, n, <<Elems(a)[k + 1]>>,
                 NoRet)

\* assign(arr.begin() + i, arr.begin() + j): a sub-range of the array itself
AssignRangeOwn(a, i, j, f) ==
    /\ Alive(a) /\ i \in 0..arr[a].size /\ j \in i..arr[a].size
    /\ LET m == copyFromRange(Begin(<<>>, f), a, Ptr(arr[a].data, i), j - i)
       IN Return(m, "assign(own range)", a, a, i, j, j - i,
                 SubSeq(Elems(a), i + 1, j), NoRet)

\* The assignments whose source lies in the array itself.
Own(a, top) ==
    \/ \E k \in 0..top, n \in 0..top, f \in Plans(top) :
          Idle /\ f <= n /\ AssignFillOwn(a, k, n, f) /\ TotalCapacity' <= top
    \/ \E i \in 0..top, j \in 0..top, f \in Plans(top) :
          Idle /\ f <= j - i /\ AssignRangeOwn(a, i, j, f)
               /\ TotalCapacity' <= top

\* One array object, used in every way.
Next ==
    \/ Unary("x", MaxOne, MaxN, MaxInit)
    \/ Continue

Spec == Init /\ [][Next]_vars

\* Two array objects: x is used in every way, y is its peer in copies, moves
\* and swaps (whatever x can hold, y can hold after a swap).
NextPair ==
    \/ Unary("x", MaxPair, MaxPairN, MaxPair)
    \/ Idle /\ ConstructDefault("y")
    \/ Idle /\ Destroy("y")
    \/ \E a \in Arrs, o \in Arrs : Binary(a, o, MaxPair)
    \/ Own("x", MaxPair)
    \/ Continue

SpecPair == Init /\ [][NextPair]_vars

\* An array that starts empty and is only appended to.
InitPush ==
    /\ arr = [a \in Arrs |-> [NoArray EXCEPT !.alive = (a = "x")]]
    /\ heap = [b \in Blocks |-> [live |-> FALSE, slots |-> <<>>]]
    /\ word = WordBits
    /\ blocksOut = 0
    /\ faults = {}
    /\ last = NoCall
    /\ uptr = [p \in UPtrs |-> NoPointer]
    /\ objs = [k \in Objs |-> "free"]
    /\ ulast = NoUCall

NextPush ==
    \/ \E v \in Values, f \in Plans(1) :
          Idle /\ PushCopy("x", v, f) /\ arr'["x"].size <= MaxPush
    \/ \E v \in Values, f \in Plans(0) :
          Idle /\ PushMove("x", v, f) /\ arr'["x"].size <= MaxPush
    \/ \E v \in Values, f \in Plans(1) :
          Idle /\ EmplaceAtEnd("x", v, f) /\ arr'["x"].size <= MaxPush
    \/ Continue

SpecPush == InitPush /\ [][NextPush]_vars

----------------------------------------------------------------------------
(* Further uses of one array *)

\* mutant: the index is checked against the capacity
at_capacity(m, a, index) ==
    IF index < m.arr[a].capacity THEN m ELSE Throw(m, "out_of_range")

\* at(index): returns _data[index] or throws std::out_of_range
at(m, a, index) ==
    IF index < m.arr[a].size THEN m ELSE Throw(m, "out_of_range")

AtIndex(a, index) ==
    /\ Alive(a)
    /\ LET m == at(Begin(<<>>, NoFailure), a, index)
       IN Return(m, "at", a, a, index, 0, 0, <<>>, Ptr(m.arr[a].data, index))

\* arr.erase(arr.insert(arr.begin() + i, v)): insert, then erase at the
\* same index
InsertErase(a, i, v) ==
    /\ Alive(a) /\ i \in 0..arr[a].size
    /\ LET m1 == insertCopy(Begin(<<v>>, NoFailure), a, i, ExtPtr)
           m2 == eraseOne(m1, a, i)
       IN Return(m2, "insert(p,x);erase(p)", a, a, i, i + 1, 1, <<v>>,
                 Ptr(m2.arr[a].data, i))

\* The calls below are made on an array of an element type whose move
\* constructor may throw; a call that ends in std::terminate has no state
\* after it.
ReserveThrowingMove(a, n, f) ==
    /\ Alive(a)
    /\ LET m == reserve(BeginThrowingMove(<<>>, f), a, n)
       IN Survives(m) /\
          Return(m, "reserve [throwing move]", a, a, 0, 0, n, <<>>, NoRet)

PushThrowingMove(a, v, f) ==
    /\ Alive(a)
    /\ LET m == push(BeginThrowingMove(<<v>>, f), a, ByCopy(ExtPtr))
       IN Survives(m) /\
          Return(m, "push [throwing move]", a, a, arr[a].size, 0, 1, <<v>>,
                 NoRet)

InsertThrowingMove(a, i, v, f) ==
    /\ Alive(a) /\ i \in 0..arr[a].size
    /\ LET m == insertCopy(BeginThrowingMove(<<v>>, f), a, i, ExtPtr)
       IN Survives(m) /\
          Return(m, "insert [throwing move]", a, a, i, 0, 1, <<v>>,
                 Ptr(m.arr[a].data, i))

EmplaceThrowingMove(a, i, v, f) ==
    /\ Alive(a) /\ i \in 0..arr[a].size
    /\ LET m == emplace(BeginThrowingMove(<<>>, f), a, i, ByArgs(v))
       IN Survives(m) /\
          Return(m, "emplace [throwing move]", a, a, i, 0, 1, <<v>>,
                 Ptr(m.arr[a].data, i))

ThrowingMove(a, top) ==
    \/ \E n \in 0..top, f \in 0..top :
          Idle /\ ReserveThrowingMove(a, n, f) /\ TotalCapacity' <= top
    \/ \E v \in Values, f \in 0..(top + 1) :
          Idle /\ PushThrowingMove(a, v, f) /\ TotalCapacity' <= top
    \/ \E i \in 0..top, v \in Values, f \in 0..(top + 1) :
          Idle /\ InsertThrowingMove(a, i, v, f) /\ TotalCapacity' <= top
    \/ \E i \in 0..top, v \in Values, f \in 0..(top + 1) :
          Idle /\ EmplaceThrowingMove(a, i, v, f) /\ TotalCapacity' <= top

\* An array of such elements that starts empty, grows, and is emptied again.
NextThrowingMove ==
    \/ ThrowingMove("x", MaxThrowing)
    \/ Idle /\ Pop("x")
    \/ Idle /\ Clear("x")
    \/ Continue

SpecThrowingMove == InitPush /\ [][NextThrowingMove]_vars

More(a, top) ==
    \/ \E index \in 0..(top + 1) :
          Idle /\ AtIndex(a, index) /\ TotalCapacity' <= top
    \/ \E i \in 0..top, v \in Values :
          Idle /\ InsertErase(a, i, v) /\ TotalCapacity' <= top

NextMore ==
    \/ Unary("x", MaxMore, MaxPairN, MaxPair)
    \/ More("x", MaxMore)
    \/ Continue

SpecMore == Init /\ [][NextMore]_vars

\* Two UniquePointer objects, used in every way.
SpecUnique == Init /\ [][NextUnique]_vars

----------------------------------------------------------------------------
(* Inserts whose source is an element or a sub-range of the array itself *)

\* insert(begin() + i, arr[j])
InsertCopyOwn(a, i, j, f) ==
    /\ Alive(a) /\ i \in 0..arr[a].size /\ j \in 0..(arr[a].size - 1)
    /\ LET m == insertCopy(Begin(<<>>, f), a, i, Ptr(arr[a].data, j))
       IN Return(m, "insert(p,own)", a, a, i, j, 1, <<Elems(a)[j + 1]>>,
                 Ptr(m.arr[a].data, i))

\* insert(begin() + i, std::move(arr[j]))
InsertMoveOwn(a, i, j) ==
    /\ Alive(a) /\ i \in 0..arr[a].size /\ j \in 0..(arr[a].size - 1)
    /\ LET m == insertMove(Begin(<<>>, NoFailure), a, i, Ptr(arr[a].data, j))
       IN Return(m, "insert(p,move(own))", a, a, i, j, 1, <<Elems(a)[j + 1]>>,
                 Ptr(m.arr[a].data, i))

\* insert(begin() + i, arr[j], n)
InsertFillOwn(a, i, j, n, f) ==
    /\ Alive(a) /\ i \in 0..arr[a].size /\ j \in 0..(arr[a].size - 1)
    /\ LET m == insertFill(Begin(<<>>, f), a, i, Ptr(arr[a].data, j), n)
       IN Return(m, "insert(p,own,n)", a, a, i, j, n, <<Elems(a)[j + 1]>>,
                 Ptr(m.arr[a].data, i))

\* insert(begin() + i, begin() + lo, begin() + hi)
InsertRangeOwn(a, i, lo, hi, f) ==
    /\ Alive(a) /\ i \in 0..arr[a].size
    /\ lo \in 0..arr[a].size /\ hi \in lo..arr[a].size
    /\ LET m == insertRange(Begin(<<>>, f), a, i, Ptr(arr[a].data, lo),
                            hi - lo)
       IN Return(m, "insert(p,own range)", a, a, i, lo, hi - lo,
                 SubSeq(Elems(a), lo + 1, hi), Ptr(m.arr[a].data, i))

\* emplace(begin() + i, arr[j])
EmplaceOwn(a, i, j, f) ==
    /\ Alive(a) /\ i \in 0..arr[a].size /\ j \in 0..(arr[a].size - 1)
    /\ LET m == emplace(Begin(<<>>, f), a, i, ByCopy(Ptr(arr[a].data, j)))
       IN Return(m, "emplace(own)", a, a, i, j, 1, <<Elems(a)[j + 1]>>,
                 Ptr(m.arr[a].data, i))

\* emplaceAtEnd(arr[j])
EmplaceAtEndOwn(a, j, f) ==
    /\ Alive(a) /\ j \in 0..(arr[a].size - 1)
    /\ LET m == push(Begin(<<>>, f), a, ByCopy(Ptr(arr[a].data, j)))
       IN Return(m, "emplaceAtEnd(own)", a, a, arr[a].size, j, 1,
                 <<Elems(a)[j + 1]>>,
                 Ptr(m.arr[a].data, m.arr[a].size - 1))

\* a reference or a range handed to a call designates constructed objects
Sound(a) == \A k \in 1..Len(Elems(a)) : Elems(a)[k] # Raw

InsertOwn(a, top) ==
    \/ \E i \in 0..top, j \in 0..top, f \in 0..1 :
          Idle /\ Sound(a) /\ InsertCopyOwn(a, i, j, f)
               /\ TotalCapacity' <= top
    \/ \E i \in 0..top, j \in 0..top :
          Idle /\ Sound(a) /\ InsertMoveOwn(a, i, j) /\ TotalCapacity' <= top
    \/ \E i \in 0..top, j \in 0..top, n \in 0..MaxOwnN, f \in 0..1 :
          Idle /\ Sound(a) /\ f <= n /\ InsertFillOwn(a, i, j, n, f)
               /\ TotalCapacity' <= top
    \/ \E i \in 0..top, lo \in 0..top, hi \in 0..top, f \in 0..1 :
          Idle /\ Sound(a) /\ hi - lo <= MaxOwnN /\ f <= hi - lo
               /\ InsertRangeOwn(a, i, lo, hi, f) /\ TotalCapacity' <= top
    \/ \E i \in 0..top, j \in 0..top, f \in 0..1 :
          Idle /\ Sound(a) /\ EmplaceOwn(a, i, j, f)
               /\ TotalCapacity' <= top
    \/ \E j \in 0..top, f \in 0..1 :
          Idle /\ Sound(a) /\ EmplaceAtEndOwn(a, j, f)
               /\ TotalCapacity' <= top

\* An array that starts empty, is filled and given room, and then receives
\* its own elements.
NextOwn ==
    \/ InsertOwn("x", MaxOwn)
    \/ \E v \in Values :
          Idle /\ PushCopy("x", v, NoFailure) /\ TotalCapacity' <= MaxOwn
    \/ \E n \in 0..MaxOwn :
          Idle /\ Reserve("x", n, NoFailure) /\ TotalCapacity' <= MaxOwn
    \/ Idle /\ Pop("x")
    \/ Continue

SpecOwn == InitPush /\ [][NextOwn]_vars

----------------------------------------------------------------------------
(* A build whose size_t is narrow, so that counts reach its largest value *)

InitNarrow ==
    /\ arr = [a \in Arrs |-> [NoArray EXCEPT !.alive = (a = "x")]]
    /\ heap = [b \in Blocks |-> [live |-> FALSE, slots |-> <<>>]]
    /\ word = NarrowBits
    /\ blocksOut = 0
    /\ faults = {}
    /\ last = NoCall
    /\ uptr = [p \in UPtrs |-> NoPointer]
    /\ objs = [k \in Objs |-> "free"]
    /\ ulast = NoUCall

\* Positions and counts range over every value of size_t; the elements all
\* have the same value.
NextNarrow ==
    \/ \E f \in {NoFailure, AllocFails} :
          Idle /\ PushCopy("x", MaxVal, f)
    \/ \E i \in 0..SizeMax, f \in {NoFailure, AllocFails} :
          Idle /\ InsertCopy("x", i, MaxVal, f)
    \/ \E i \in 0..SizeMax, f \in {NoFailure, AllocFails} :
          Idle /\ Emplace("x", i, MaxVal, f)
    \/ \E i \in 0..SizeMax, n \in 0..SizeMax, f \in {NoFailure, AllocFails} :
          Idle /\ InsertFill("x", i, MaxVal, n, f)
    \/ \E n \in 0..SizeMax : Idle /\ Reserve("x", n, NoFailure)
    \/ Idle /\ Pop("x")
    \/ Continue

SpecNarrow == InitNarrow /\ [][NextNarrow]_vars

----------------------------------------------------------------------------
(* An array that is appended to and erased from, by element, by range and *)
(* by empty range.                                                        *)

NextErase ==
    \/ \E v \in Values :
          Idle /\ PushCopy("x", v, NoFailure) /\ TotalCapacity' <= MaxErase
    \/ \E i \in 0..MaxErase : Idle /\ Erase("x", i)
    \/ \E i \in 0..MaxErase, j \in 0..MaxErase : Idle /\ EraseRange("x", i, j)
    \/ \E i \in 0..MaxErase : Idle /\ EraseEmpty("x", i)
    \/ Idle /\ Pop("x")
    \/ Continue

SpecErase == InitPush /\ [][NextErase]_vars

----------------------------------------------------------------------------
(* Vocabulary of the properties *)

Returned == last.exc = "none"
Called(ops) == last.op \in ops
Self == last.a
Other == last.o
Before == last.pre[last.a]
ElemsBefore == last.was[last.a]
ElemsNow == Elems(last.a)
Now == arr[last.a]

\* the array the call was made on is exactly as it was
Untouched ==
    /\ Now = Before
    /\ ElemsNow = ElemsBefore
    /\ last.faults = {}

AllDead == \A a \in Arrs : Dead(a)

PowersOfTwo == {Pow2(e) : e \in 0..(WordBits - 1)}
CeilPow2(k) ==
    CHOOSE p \in PowersOfTwo :
        p >= k /\ \A q \in PowersOfTwo : q >= k => p <= q

Appends == {"push(const&)", "push(&&)", "emplaceAtEnd"}
Constructors ==
    {"DArray(n)", "DArray(x,n)", "DArray(first,last)", "DArray(const&)"}
Assigns == {"assign(x,n)", "assign(first,last)", "=(const&)"}
SingleInserts == {"insert(p,x)", "insert(p,&&)", "emplace"}
Inserts == SingleInserts \cup {"insert(p,x,n)", "insert(p,first,last)"}
Erases == {"erase(p)", "erase(first,last)"}

\* the slots first+lo .. first+hi-1 of block b, highest first
RECURSIVE Downward(_, _, _)
Downward(b, lo, hi) ==
    IF hi <= lo THEN <<>> ELSE <<Ptr(b, hi - 1)>> \o Downward(b, lo, hi - 1)

RECURSIVE Upward(_, _, _)
Upward(b, lo, hi) ==
    IF hi <= lo THEN <<>> ELSE <<Ptr(b, lo)>> \o Upward(b, lo + 1, hi)

Range(seq) == {seq[k] : k \in 1..Len(seq)}
Take(seq, k) == SubSeq(seq, 1, k)
Drop(seq, k) == SubSeq(seq, k + 1, Len(seq))

----------------------------------------------------------------------------
(* C1: starting from an empty array and appending (push by copy, push by  *)
(* move, emplaceAtEnd), every successful append raises size by one and    *)
(* after the k-th the capacity is the smallest power of two >= k          *)
(* (1, 2, 4, 4, 8, 8, ...).                                                *)

C1_DoublingSchedule ==
    /\ arr["x"].capacity =
          IF arr["x"].size = 0 THEN 0 ELSE CeilPow2(arr["x"].size)
    /\ (Called(Appends) /\ Returned) => Now.size = Before.size + 1

C1_Witness ==
    /\ Called(Appends) /\ Returned
    /\ arr["x"].size = 5 /\ arr["x"].capacity = 8

----------------------------------------------------------------------------
(* C2: when the allocation fails (std::bad_alloc from the allocator, or   *)
(* std::length_error for a request above maxSize()) in reserve, push,     *)
(* emplaceAtEnd, emplace or any insert, the array keeps its block, size,  *)
(* capacity and elements, no element is constructed or destroyed, and an  *)
(* rvalue argument is not moved from.                                     *)

Growers == Appends \cup Inserts \cup {"reserve"}

C2_AllocationFailureIsStrong ==
    (Called(Growers) /\ last.exc \in {"bad_alloc", "length_error"}) =>
        /\ Untouched
        /\ SlotsOf(Self) = IF Before.data = Null THEN <<>>
                           ELSE heap[Before.data].slots
        /\ last.cons = 0 /\ last.des = <<>>
        /\ last.allocs = 0 /\ last.deallocs = 0
        /\ last.ext = (IF Called({"emplace", "emplaceAtEnd", "reserve"})
                       THEN <<>> ELSE last.args)

C2_Witness ==
    /\ Called({"insert(p,&&)"}) /\ last.exc = "bad_alloc"
    /\ Before.size = 2 /\ Before.capacity = 2 /\ last.i = 1
    /\ last.ext = last.args

----------------------------------------------------------------------------
(* C3: in a constructor that builds n > 0 elements (size, fill, range or  *)
(* initializer list, copy), when the k-th element construction throws,    *)
(* the k-1 elements already built are destroyed, last built first, the    *)
(* block is deallocated once and the exception leaves the constructor;    *)
(* when the allocation throws nothing is constructed, destroyed or        *)
(* deallocated.                                                            *)

C3_ConstructorUnwinds ==
    (Called(Constructors) /\ last.n > 0) =>
        /\ last.exc = "runtime_error" =>
              /\ last.cons < last.n
              /\ \E b \in Blocks :
                    /\ last.des = Downward(b, 0, last.cons)
                    /\ ~heap[b].live
              /\ last.allocs = 1 /\ last.deallocs = 1
              /\ Dead(Self) /\ Now.data = Null
              /\ last.faults = {}
        /\ last.exc = "bad_alloc" =>
              /\ last.cons = 0 /\ last.des = <<>>
              /\ last.allocs = 0 /\ last.deallocs = 0
              /\ Dead(Self) /\ Now.data = Null
              /\ last.faults = {}

C3_Witness ==
    /\ Called({"DArray(const&)"}) /\ last.exc = "runtime_error"
    /\ last.n = 3 /\ last.cons = 2 /\ Len(last.des) = 2

----------------------------------------------------------------------------
(* C4: assign(x, n), assign(first, last), assignment from an initializer  *)
(* list and copy assignment build the new contents in a fresh block       *)
(* first: when the allocation or an element copy throws, the target keeps *)
(* its block, size, capacity and elements, the copies already built are   *)
(* destroyed and the fresh block is released.                             *)

C4_AssignIsStrong ==
    (Called(Assigns) /\ ~Returned) =>
        /\ Untouched
        /\ last.allocs = last.deallocs
        /\ Len(last.des) = last.cons
        /\ \A k \in 1..Len(last.des) :
              last.des[k].b # Before.data /\ ~heap[last.des[k].b].live
        /\ last.exc = "bad_alloc" => last.allocs = 0 /\ last.cons = 0
        /\ last.exc = "runtime_error" => last.allocs = 1

C4_Witness ==
    /\ Called({"=(const&)"}) /\ last.exc = "runtime_error"
    /\ last.n = 2 /\ last.cons = 1 /\ Len(last.des) = 1
    /\ Before.size > 0 /\ ElemsNow = ElemsBefore

----------------------------------------------------------------------------
(* C5: once every array has been destroyed, every element that was        *)
(* constructed has been destroyed exactly once: no block was given back   *)
(* with an element still undestroyed in it, and no element was destroyed  *)
(* twice.                                                                  *)

C5_ElementsBalance ==
    AllDead => faults \cap {"abandoned_object", "destroy_dead_object"} = {}

----------------------------------------------------------------------------
(* C6: every block obtained from the allocator is deallocated exactly     *)
(* once: the blocks outstanding are exactly the blocks the arrays own,    *)
(* each owned by one array and still allocated, none is deallocated       *)
(* twice, and none is outstanding once all arrays are destroyed.          *)

Owned == {arr[a].data : a \in Arrs} \ {Null}
Outstanding == {b \in Blocks : heap[b].live}

C6_BlocksBalance ==
    /\ faults \cap {"double_deallocate", "deallocate_null"} = {}
    /\ Owned = Outstanding
    /\ blocksOut = Cardinality(Outstanding)
    /\ \A a \in Arrs, o \in Arrs :
          (a # o /\ arr[a].data # Null) => arr[a].data # arr[o].data
    /\ \A a \in Arrs : Dead(a) => arr[a].data = Null
    /\ ~Idle => last.allocs - last.deallocs =
                    Cardinality({a \in Arrs : arr[a].data # Null})
                    - Cardinality({a \in Arrs : last.pre[a].data # Null})
    /\ AllDead => blocksOut = 0

C6_Witness ==
    /\ Called({"insert(p,x)"}) /\ last.exc = "runtime_error"
    /\ last.allocs = 1 /\ last.deallocs = 1
    /\ blocksOut = 1 /\ Before.size = 2

----------------------------------------------------------------------------
(* C7: move construction and move assignment dst <- src between two       *)
(* distinct arrays leave src with size 0, capacity 0 and null data and    *)
(* give dst the block, size, capacity and elements src had; nothing is    *)
(* allocated or constructed; move assignment destroys all previous        *)
(* elements of dst and deallocates its previous block once.               *)

C7_MoveTransfers ==
    (Called({"DArray(&&)", "=(&&)"}) /\ Self # Other) =>
        /\ Returned /\ last.faults = {}
        /\ arr[Other] = [last.pre[Other] EXCEPT
                            !.data = Null, !.size = 0, !.capacity = 0]
        /\ Now = [last.pre[Other] EXCEPT !.alive = TRUE]
        /\ ElemsNow = last.was[Other]
        /\ last.allocs = 0 /\ last.cons = 0
        /\ Called({"DArray(&&)"}) => last.des = <<>> /\ last.deallocs = 0
        /\ Called({"=(&&)"}) =>
              /\ last.des = Downward(Before.data, 0, Before.size)
              /\ last.deallocs = (IF Before.data # Null THEN 1 ELSE 0)
              /\ Before.data # Null => ~heap[Before.data].live

C7_Witness ==
    /\ Called({"=(&&)"}) /\ Self # Other
    /\ Before.size > 0
    /\ last.pre[Other].size = 0 /\ last.pre[Other].capacity > 0
    /\ Now.capacity > 0

----------------------------------------------------------------------------
(* C8: copy-assigning or move-assigning an array to itself changes        *)
(* nothing: same block, size, capacity and elements, and no allocation,   *)
(* deallocation, element construction or element destruction.             *)

C8_SelfAssignIsNoOp ==
    (Called({"=(const&)", "=(&&)"}) /\ Self = Other) =>
        /\ Returned
        /\ Untouched
        /\ last.allocs = 0 /\ last.deallocs = 0
        /\ last.cons = 0 /\ last.des = <<>>

C8_Witness ==
    /\ Called({"=(const&)"}) /\ Self = Other
    /\ Before.size >= 2 /\ ElemsNow = ElemsBefore

----------------------------------------------------------------------------
(* C9: a successful insert(begin()+i, v) or emplace(begin()+i, args) of a *)
(* value that is not an element of the array yields old[0..i) ++ [v] ++   *)
(* old[i..size); size grows by one; capacity is unchanged when there was  *)
(* room and otherwise doubles (0 becomes 1); the result designates index  *)
(* i of the array's block.                                                *)

C9_InsertOne ==
    (Called(SingleInserts) /\ Returned) =>
        /\ ElemsNow = Take(ElemsBefore, last.i) \o last.args
                          \o Drop(ElemsBefore, last.i)
        /\ Now.size = Before.size + 1
        /\ Now.capacity =
              IF Before.size < Before.capacity THEN Before.capacity
              ELSE IF Before.capacity = 0 THEN 1 ELSE 2 * Before.capacity
        /\ Before.size < Before.capacity => Now.data = Before.data
        /\ last.ret = Ptr(Now.data, last.i)
        /\ Now.data \in Outstanding
        /\ heap[Now.data].slots[last.i + 1] = last.args[1]
        /\ last.faults = {}

C9_Witness ==
    /\ Called({"insert(p,x)"}) /\ Returned
    /\ Before.size = 2 /\ Before.capacity = 2 /\ last.i = 1
    /\ Now.capacity = 4 /\ Now.data # Before.data

----------------------------------------------------------------------------
(* C10: erase(position) and erase(first, last) over a non-empty range     *)
(* [i, j) remove exactly the elements i..j-1, each destroyed once, keep   *)
(* the others in order, lower size by j - i, keep capacity and block, and *)
(* return the position of the element that followed the range (end()      *)
(* when the range reached the end).                                       *)

C10_Erase ==
    Called(Erases) =>
        /\ Returned /\ last.faults = {}
        /\ ElemsNow = Take(ElemsBefore, last.i) \o Drop(ElemsBefore, last.j)
        /\ Now.size = Before.size - (last.j - last.i)
        /\ Now.capacity = Before.capacity /\ Now.data = Before.data
        /\ last.des = Downward(Now.data, last.i, last.j)
                          \o Upward(Now.data, last.j, Before.size)
        /\ last.cons = Before.size - last.j
        /\ \A k \in (Now.size + 1)..Now.capacity : SlotsOf(Self)[k] = Raw
        /\ last.ret = Ptr(Now.data, last.i)
        /\ IF last.j = Before.size THEN last.ret = Ptr(Now.data, Now.size)
           ELSE Deref([heap |-> heap, ext |-> <<>>], last.ret)
                    = ElemsBefore[last.j + 1]
        /\ last.allocs = 0 /\ last.deallocs = 0

C10_Witness ==
    /\ Called({"erase(first,last)"})
    /\ Before.size = 4 /\ last.i = 1 /\ last.j = 3
    /\ Now.size = 2

----------------------------------------------------------------------------
(* C11: insert(begin()+i, v) followed by erase(begin()+i) restores the    *)
(* element sequence and the size, for every index 0..size, whether or not *)
(* the insert reallocated; the capacity is the one the insert left.       *)

C11_InsertEraseInverse ==
    Called({"insert(p,x);erase(p)"}) =>
        /\ Returned /\ last.faults = {}
        /\ ElemsNow = ElemsBefore
        /\ Now.size = Before.size
        /\ Now.capacity >= Before.capacity
        /\ Before.size < Before.capacity =>
              Now.capacity = Before.capacity /\ Now.data = Before.data
        /\ Before.size = Before.capacity => Now.capacity > Before.capacity

C11_Witness ==
    /\ Called({"insert(p,x);erase(p)"})
    /\ Before.size = 2 /\ Before.capacity = 2 /\ last.i = 1
    /\ Now.capacity = 4 /\ ElemsNow = ElemsBefore

----------------------------------------------------------------------------
(* C12: reserve(n) with n <= capacity does nothing (no allocation, no     *)
(* element moved); with capacity < n <= maxSize() and a successful        *)
(* allocation the capacity becomes exactly n, in a block of n slots,      *)
(* while size and the element sequence stay as they were.                 *)

C12_Reserve ==
    Called({"reserve"}) =>
        /\ last.n <= Before.capacity =>
              /\ Returned /\ Untouched
              /\ last.allocs = 0 /\ last.deallocs = 0
              /\ last.cons = 0 /\ last.des = <<>>
        /\ (last.n > Before.capacity /\ Returned) =>
              /\ last.n <= maxSize
              /\ Now.capacity = last.n /\ Len(SlotsOf(Self)) = last.n
              /\ Now.size = Before.size
              /\ ElemsNow = ElemsBefore
              /\ last.allocs = 1 /\ last.cons = Before.size
        /\ (last.n > maxSize /\ last.n > Before.capacity) =>
              last.exc = "length_error"

C12_Witness ==
    /\ Called({"reserve"}) /\ Returned
    /\ Before.size = 2 /\ Before.capacity = 3 /\ last.n = 4
    /\ Now.capacity = 4 /\ ElemsNow = ElemsBefore

----------------------------------------------------------------------------
(* C13: shrinkToFit always returns normally; when the allocation of the   *)
(* smaller block fails (capacity > size > 0 and nothing was allocated)    *)
(* the block, size, capacity and elements are as before and no block is   *)
(* leaked.                                                                 *)

C13_ShrinkToFitSwallows ==
    Called({"shrinkToFit"}) =>
        /\ Returned
        /\ Now.size = Before.size /\ ElemsNow = ElemsBefore
        /\ (Before.capacity > Before.size /\ Before.size > 0
               /\ last.allocs = 0) =>
              /\ Untouched
              /\ last.deallocs = 0 /\ last.cons = 0 /\ last.des = <<>>
        /\ Owned = Outstanding /\ blocksOut = Cardinality(Owned)

C13_Witness ==
    /\ Called({"shrinkToFit"}) /\ Returned
    /\ Before.capacity = 4 /\ Before.size = 2 /\ last.allocs = 0
    /\ Now = Before /\ ElemsNow = ElemsBefore

----------------------------------------------------------------------------
(* C14: at(index) returns the element at index when index < size and      *)
(* throws std::out_of_range for every index >= size, also for an index    *)
(* in [size, capacity) inside the block; the array is unchanged either    *)
(* way.                                                                    *)

C14_AtIsChecked ==
    Called({"at"}) =>
        /\ Untouched
        /\ last.allocs = 0 /\ last.deallocs = 0
        /\ last.cons = 0 /\ last.des = <<>>
        /\ last.i < Before.size =>
              /\ Returned
              /\ last.ret = Ptr(Now.data, last.i)
              /\ Deref([heap |-> heap, ext |-> <<>>], last.ret)
                    = ElemsBefore[last.i + 1]
        /\ last.i >= Before.size => last.exc = "out_of_range"

C14_Witness ==
    /\ Called({"at"}) /\ last.exc = "out_of_range"
    /\ Before.size = 1 /\ last.i = 2 /\ Before.capacity = 4

----------------------------------------------------------------------------
(* C15: after a successful assign(value, n), assign(first, last),         *)
(* initializer-list assignment or copy assignment from another array,     *)
(* with incoming count n > 0: size = capacity = n in a new block of       *)
(* exactly n slots, and the elements are the incoming values as they were *)
(* before the call, also when the source is an element or a sub-range of  *)
(* the array itself; with n = 0 the array is empty, nothing is allocated  *)
(* and block and capacity are kept.                                       *)

FillAssigns == {"assign(x,n)", "assign(own,n)"}
AssignForms == Assigns \cup {"assign(own,n)", "assign(own range)"}
Incoming ==
    IF Called(FillAssigns) THEN [k \in 1..last.n |-> last.args[1]]
    ELSE last.args

AssignedExactly ==
    IF last.n > 0
    THEN /\ Now.size = last.n /\ Now.capacity = last.n
         /\ Len(SlotsOf(Self)) = last.n
         /\ Now.data # Before.data
         /\ ElemsNow = Incoming
         /\ last.allocs = 1
    ELSE /\ Now.size = 0 /\ last.allocs = 0
         /\ Now.capacity = Before.capacity /\ Now.data = Before.data

C15_AssignExact ==
    (Called(AssignForms) /\ Returned
       /\ ~(Called({"=(const&)"}) /\ Self = Other)) => AssignedExactly

C15_Witness ==
    /\ Called({"assign(own range)"}) /\ Returned
    /\ Before.size = 3 /\ last.i = 1 /\ last.j = 3
    /\ Now.capacity = 2 /\ ElemsNow = SubSeq(ElemsBefore, 2, 3)

\* the same for every copy assignment, x = x included
C15_AssignExactAlways ==
    (Called(AssignForms) /\ Returned) => AssignedExactly

----------------------------------------------------------------------------
(* C16: a constructor given count 0 (size 0, fill 0, empty range or list, *)
(* copy of an array of size 0 even with capacity) allocates nothing and   *)
(* yields size = capacity = 0 and null data; given n > 0 it allocates     *)
(* once and yields size = capacity = n with the elements in source order, *)
(* so a copy has the capacity of the source's size.                       *)

Built ==
    CASE Called({"DArray(n)"}) -> [k \in 1..last.n |-> DefaultId]
      [] Called({"DArray(x,n)"}) -> [k \in 1..last.n |-> last.args[1]]
      [] OTHER -> last.args

C16_ConstructorsExact ==
    (Called(Constructors) /\ Returned) =>
        /\ Alive(Self) /\ last.faults = {}
        /\ last.deallocs = 0 /\ last.des = <<>>
        /\ IF last.n = 0
           THEN /\ last.allocs = 0 /\ last.cons = 0
                /\ Now.size = 0 /\ Now.capacity = 0 /\ Now.data = Null
           ELSE /\ last.allocs = 1 /\ last.cons = last.n
                /\ Now.size = last.n /\ Now.capacity = last.n
                /\ Len(SlotsOf(Self)) = last.n
                /\ ElemsNow = Built
        /\ Called({"DArray(const&)"}) =>
              /\ last.n = last.pre[Other].size
              /\ ElemsNow = last.was[Other]
              /\ Elems(Other) = last.was[Other]
              /\ arr[Other] = last.pre[Other]

C16_Witness ==
    /\ Called({"DArray(const&)"}) /\ Returned
    /\ last.pre[Other].capacity = 2 /\ last.pre[Other].size = 1
    /\ Now.capacity = 1 /\ Now.size = 1

----------------------------------------------------------------------------
(* C17: after move construction or move assignment of UniquePointer dst   *)
(* from a distinct src, src holds null and dst holds the pointer src      *)
(* held; the deleter is not called on that pointer; move assignment       *)
(* passes the pointer dst held before, when not null, to the deleter      *)
(* exactly once, and move construction calls no deleter.                  *)

UMoves == {"UniquePointer(&&)", "=(UniquePointer&&)"}
Transferred == ulast.pre[ulast.src].pointer
Replaced == ulast.pre[ulast.dst].pointer

C17_UniquePointerMove ==
    (ulast.op \in UMoves /\ ulast.dst # ulast.src) =>
        /\ uptr[ulast.src].pointer = Null
        /\ uptr[ulast.dst].pointer = Transferred
        /\ uptr[ulast.dst].alive /\ uptr[ulast.src].alive
        /\ \A k \in 1..Len(ulast.deleted) :
              ulast.deleted[k].pointer # Transferred
        /\ Transferred # Null => objs[Transferred] = "live"
        /\ ulast.op = "UniquePointer(&&)" => ulast.deleted = <<>>
        /\ ulast.op = "=(UniquePointer&&)" =>
              ulast.deleted =
                 IF Replaced # Null
                 THEN <<[pointer |-> Replaced,
                         deleter |-> ulast.pre[ulast.dst].deleter]>>
                 ELSE <<>>
        /\ "delete_dead_object" \notin faults

C17_Witness ==
    /\ ulast.op = "=(UniquePointer&&)" /\ ulast.dst # ulast.src
    /\ Transferred # Null /\ Replaced # Null
    /\ Len(ulast.deleted) = 1 /\ uptr[ulast.dst].pointer = Transferred

----------------------------------------------------------------------------
(* C18: when insert or emplace has room for the new elements, the         *)
(* position is before end() and the construction of a new element in the  *)
(* opened gap throws (single, fill or range), the gap elements already    *)
(* built are destroyed, the tail is shifted back, and the array has the   *)
(* same block, size, capacity and elements as before; the exception       *)
(* leaves the call.                                                        *)

TailLength == Before.size - last.i

C18_GapFailureRollsBack ==
    (/\ Called(Inserts) /\ last.exc = "runtime_error"
     /\ Before.size + last.n <= Before.capacity
     /\ last.i < Before.size) =>
        /\ Untouched
        /\ \A k \in (Now.size + 1)..Now.capacity : SlotsOf(Self)[k] = Raw
        /\ last.allocs = 0 /\ last.deallocs = 0
        /\ last.cons >= 2 * TailLength
        /\ last.cons < 2 * TailLength + last.n
        /\ Len(last.des) = last.cons
        /\ last.ret = NoRet

C18_Witness ==
    /\ Called({"insert(p,x,n)"}) /\ last.exc = "runtime_error"
    /\ Before.size = 2 /\ Before.capacity = 4 /\ last.i = 1 /\ last.n = 2
    /\ last.cons = 3 /\ ElemsNow = ElemsBefore

----------------------------------------------------------------------------
(* C19: when push, emplaceAtEnd, emplace or insert must reallocate and    *)
(* the construction of a new element throws, only new elements were       *)
(* constructed (in the candidate block, at the insert position) and they  *)
(* are destroyed, the candidate block is deallocated, no existing element *)
(* was moved or destroyed, and block, size, capacity and elements are as  *)
(* before the call.                                                        *)

C19_GrowFailureIsStrong ==
    (/\ Called(Appends \cup Inserts) /\ last.exc = "runtime_error"
     /\ Before.size + last.n > Before.capacity) =>
        /\ Untouched
        /\ \A k \in (Now.size + 1)..Now.capacity : SlotsOf(Self)[k] = Raw
        /\ last.allocs = 1 /\ last.deallocs = 1
        /\ last.cons < last.n
        /\ \E b \in Blocks \ {Before.data} :
              /\ ~heap[b].live
              /\ last.des = Downward(b, last.i, last.i + last.cons)
        /\ last.ret = NoRet

C19_Witness ==
    /\ Called({"insert(p,first,last)"}) /\ last.exc = "runtime_error"
    /\ Before.size = 3 /\ Before.capacity = 3 /\ last.i = 1 /\ last.n = 2
    /\ last.cons = 1 /\ ElemsNow = ElemsBefore

----------------------------------------------------------------------------
(* C20: when the move construction of an existing element throws while   *)
(* the elements are relocated into a new block (reserve, or push, insert *)
(* or emplace on a full array), the error propagates with size, capacity *)
(* and every element as before the call, and every element constructed   *)
(* in the candidate block was destroyed before that block is deallocated.*)

Relocations ==
    {"reserve [throwing move]", "push [throwing move]",
     "insert [throwing move]", "emplace [throwing move]"}

\* the call reallocated and one of its moves of an existing element threw
MoveThrew ==
    /\ Called(Relocations) /\ last.exc = "runtime_error"
    /\ last.allocs = 1
    /\ last.op = "reserve [throwing move]" \/ last.cons >= 1

C20_MoveFailureIsStrong ==
    MoveThrew =>
        /\ Untouched
        /\ Len(last.des) = last.cons
        /\ "abandoned_object" \notin last.faults
        /\ last.deallocs = 1

----------------------------------------------------------------------------
(* C21: with room in the block, insert(begin()+i, arr[j]) and             *)
(* insert(begin()+i, arr[j], n) insert copies of the value arr[j] had     *)
(* before the call, for every i and every j (before, at or after i); the  *)
(* move overload insert(begin()+i, std::move(arr[j])) inserts that value  *)
(* and leaves the slot the source was shifted to in the moved-from state. *)

Repeat(v, n) == [k \in 1..n |-> v]
InsertedOwn ==
    Take(ElemsBefore, last.i) \o Repeat(last.args[1], last.n)
        \o Drop(ElemsBefore, last.i)
\* where element j of the old sequence is in the new one (from 1)
ShiftedIndex == IF last.j >= last.i THEN last.j + last.n + 1 ELSE last.j + 1
HasRoom == Before.size + last.n <= Before.capacity
\* every element was a constructed object when the call was made
Constructed == \A k \in 1..Len(ElemsBefore) : ElemsBefore[k] # Raw

C21_InsertOwnElement ==
    /\ (/\ Called({"insert(p,own)", "insert(p,own,n)"}) /\ Returned
        /\ HasRoom /\ last.n > 0 /\ Constructed) =>
            /\ ElemsNow = InsertedOwn
            /\ Now.capacity = Before.capacity /\ Now.data = Before.data
            /\ last.faults = {}
    /\ (/\ Called({"insert(p,move(own))"}) /\ Returned
        /\ HasRoom /\ Constructed) =>
            /\ ElemsNow = [InsertedOwn EXCEPT ![ShiftedIndex] = Moved]
            /\ Now.capacity = Before.capacity /\ Now.data = Before.data
            /\ last.faults = {}

C21_Witness ==
    /\ Called({"insert(p,own,n)"}) /\ Returned
    /\ Before.size = 2 /\ Before.capacity = 4 /\ last.n = 2
    /\ last.i = 0 /\ last.j = 1
    /\ ElemsBefore[1] \in Values /\ ElemsBefore[2] \in Values
    /\ ElemsBefore[2] # ElemsBefore[1]
    /\ ElemsNow = <<ElemsBefore[2], ElemsBefore[2]>> \o ElemsBefore

----------------------------------------------------------------------------
(* C22: with room in the block, insert(begin()+i, begin()+lo, begin()+hi) *)
(* over a non-empty sub-range of the array itself inserts copies of the   *)
(* values the sub-range held before the call, in order, for every i and   *)
(* every sub-range: before i, at or after i, or across i.                 *)

C22_InsertOwnRange ==
    (/\ Called({"insert(p,own range)"}) /\ Returned
     /\ HasRoom /\ last.n > 0 /\ Constructed) =>
        /\ ElemsNow = Take(ElemsBefore, last.i) \o last.args
                          \o Drop(ElemsBefore, last.i)
        /\ last.faults = {}

----------------------------------------------------------------------------
(* C23: when the allocation succeeds, shrinkToFit with capacity > size > 0 *)
(* ends with capacity = size, the size and the elements as before, in a    *)
(* block of exactly that many slots; with size = 0 and capacity > 0 it     *)
(* releases the block without allocating and ends with capacity 0 and null *)
(* data; with capacity = size it does nothing.                             *)

C23_ShrinkToFit ==
    (Called({"shrinkToFit"}) /\ Returned) =>
        /\ (Before.capacity > Before.size /\ Before.size > 0
               /\ last.allocs = 1) =>
              /\ Now.capacity = Before.size /\ Now.size = Before.size
              /\ ElemsNow = ElemsBefore
              /\ Now.data # Before.data /\ Now.data \in Outstanding
              /\ Len(heap[Now.data].slots) = Now.capacity
              /\ last.deallocs = 1 /\ ~heap[Before.data].live
              /\ last.cons = Before.size
        /\ (Before.capacity > Before.size /\ Before.size = 0) =>
              /\ Now.capacity = 0 /\ Now.size = 0 /\ Now.data = Null
              /\ last.allocs = 0 /\ last.deallocs = 1
              /\ ~heap[Before.data].live
              /\ last.cons = 0 /\ last.des = <<>> /\ last.faults = {}
        /\ Before.capacity = Before.size =>
              /\ Untouched
              /\ last.allocs = 0 /\ last.deallocs = 0
              /\ last.cons = 0 /\ last.des = <<>>

C23_Witness ==
    /\ Called({"shrinkToFit"}) /\ Returned
    /\ Before.capacity = 4 /\ Before.size = 0
    /\ Now.capacity = 0 /\ Now.data = Null /\ last.deallocs = 1

----------------------------------------------------------------------------
(* C24: on every reallocation made by push, insert or emplace for         *)
(* required = size + n slots (the sum as the call computes it), the new   *)
(* capacity is maxSize when capacity >= maxSize / 2 and                   *)
(* max(2 * capacity, required) otherwise; it is >= required and           *)
(* <= maxSize, 2 * capacity does not exceed the largest size_t, and       *)
(* required > maxSize raises std::length_error with the array unchanged.  *)

MaxElements == (Pow2(word) - 1) \div ElemSize
Required == (Before.size + last.n) % Pow2(word)
Reallocates == Called(Appends \cup Inserts) /\ Required > Before.capacity

C24_GrowthPolicy ==
    Reallocates =>
        /\ Required > MaxElements =>
              /\ last.exc = "length_error" /\ Untouched
              /\ last.allocs = 0 /\ last.cons = 0
        /\ (Required <= MaxElements /\ Returned) =>
              /\ Now.capacity =
                    IF Before.capacity >= MaxElements \div 2 THEN MaxElements
                    ELSE Max(2 * Before.capacity, Required)
              /\ Now.capacity >= Required /\ Now.capacity <= MaxElements
              /\ Before.capacity < MaxElements \div 2 =>
                    2 * Before.capacity < Pow2(word)
        /\ Required <= MaxElements => last.exc \in {"none", "bad_alloc"}

C24_Witness ==
    /\ Called({"insert(p,x,n)"}) /\ Returned
    /\ Before.capacity = 4 /\ Before.size = 3 /\ last.n = 2
    /\ Now.capacity = MaxElements /\ MaxElements = 7

----------------------------------------------------------------------------
(* C25: after every public operation, in any sequence and whether it      *)
(* returned or threw, the data pointer of an array is null exactly when   *)
(* its capacity is 0.                                                      *)

----------------------------------------------------------------------------
(* C26: after every public operation, in any sequence and whether it      *)
(* returned or threw, 0 <= size <= capacity <= maxSize, the slots          *)
(* [0, size) of the block hold live elements and the slots                 *)
(* [size, capacity) hold none.                                             *)

C26_Layout ==
    \A a \in Arrs : Alive(a) =>
        /\ 0 <= arr[a].size /\ arr[a].size <= arr[a].capacity
        /\ arr[a].capacity <= MaxElements
        /\ Len(SlotsOf(a)) = arr[a].capacity
        /\ \A k \in 1..arr[a].capacity :
              (SlotsOf(a)[k] # Raw) <=> (k <= arr[a].size)

----------------------------------------------------------------------------
(* C27: when each raw pointer is handed to at most one UniquePointer,     *)
(* over any sequence of construction, move construction, move assignment  *)
(* (also onto itself), reset, release, swap and destruction: the deleter  *)
(* is called exactly once on each non-null pointer that is owned when it  *)
(* is replaced, reset or its owner is destroyed; never on a pointer       *)
(* returned by release; never twice on one pointer; and two               *)
(* UniquePointers never hold the same non-null pointer.                   *)

Disposals == {"~UniquePointer", "=(nullptr)", "reset", "=(UniquePointer&&)"}
Keepers == {"UniquePointer(T*)", "UniquePointer(&&)", "release", "swap",
            "get", "getDeleter"}
DeletedOnce ==
    IF Replaced # Null /\ ~(ulast.op = "=(UniquePointer&&)"
                               /\ ulast.dst = ulast.src)
    THEN <<[pointer |-> Replaced, deleter |-> ulast.pre[ulast.dst].deleter]>>
    ELSE <<>>

C27_DeletedExactlyOnce ==
    /\ \A p \in UPtrs, q \in UPtrs :
          (p # q /\ uptr[p].pointer = uptr[q].pointer) =>
              uptr[p].pointer = Null
    /\ \A p \in UPtrs :
          uptr[p].pointer # Null => objs[uptr[p].pointer] = "live"
    /\ "delete_dead_object" \notin faults
    /\ ulast.op \in Disposals =>
          /\ ulast.deleted = DeletedOnce
          /\ \A k \in 1..Len(ulast.deleted) :
                objs[ulast.deleted[k].pointer] = "free"
    /\ ulast.op \in Keepers => ulast.deleted = <<>>
    /\ (ulast.op = "release" /\ ulast.ret # Null) =>
          /\ ulast.ret = Replaced /\ objs[ulast.ret] = "live"
          /\ ulast.ret \in Loose
    /\ (ulast.op = "=(UniquePointer&&)" /\ ulast.dst = ulast.src) =>
          uptr[ulast.dst].pointer = Replaced

C27_Witness ==
    /\ ulast.op = "=(UniquePointer&&)" /\ ulast.dst = ulast.src
    /\ Replaced # Null /\ uptr[ulast.dst].pointer = Replaced
    /\ ulast.deleted = <<>> /\ objs[Replaced] = "live"
    /\ \E k \in Loose : k # Replaced

----------------------------------------------------------------------------
(* C28: emplace(begin()+i, arr[j]) and emplaceAtEnd(arr[j]) construct the *)
(* new element from the value arr[j] had before the call, for every i and *)
(* every j, both when the tail is shifted in place and when the call      *)
(* reallocates; no destroyed or moved-from object is read.                *)

C28_EmplaceOwnElement ==
    (/\ Called({"emplace(own)", "emplaceAtEnd(own)"}) /\ Returned
     /\ Constructed) =>
        /\ ElemsNow = InsertedOwn
        /\ last.faults = {}

----------------------------------------------------------------------------
(* C29: erase(first, last) with first = last is a no-op at every position *)
(* in [begin(), end()]: no element is destroyed, constructed or moved,    *)
(* size, capacity, data and the elements are unchanged, no assertion is   *)
(* violated, and first is returned.                                       *)

C29_EraseEmptyRange ==
    (Called({"erase(first,first)"}) /\ Constructed) =>
        /\ Returned
        /\ Untouched
        /\ last.des = <<>> /\ last.cons = 0
        /\ last.ret = Ptr(Before.data, last.i)

----------------------------------------------------------------------------
(* C30: for every count n, insert(position, element, n) on a well-formed  *)
(* array either adds exactly n copies of the element at the position and  *)
(* ends with size <= capacity, or fails with std::length_error or         *)
(* std::bad_alloc and leaves the array unchanged, also when size + n      *)
(* exceeds the largest size_t; no slot outside the block is written.      *)

WellFormed == Before.size <= Before.capacity /\ Constructed

C30_InsertCountNeverWraps ==
    (Called({"insert(p,x,n)"}) /\ WellFormed) =>
        /\ \/ /\ Returned
              /\ Now.size = Before.size + last.n
              /\ Now.size <= Now.capacity
              /\ ElemsNow = InsertedOwn
              /\ last.faults = {}
           \/ /\ last.exc \in {"length_error", "bad_alloc"}
              /\ Untouched
        /\ "write_outside_block" \notin last.faults

====
